---- MODULE Spec2Model ----
(***************************************************************************)
(* Detection pipeline of the financial-crime analyser: buildGraph,         *)
(* detectCycles, detectSmurfing and detectLayering, run in the order of    *)
(* the POST handler of app/api/analyze/route.ts.                           *)
(*                                                                         *)
(* Account ids are JavaScript strings; they are modelled as sequences of   *)
(* UTF-16 code units so that "<" on ids and join("|") are computed the way *)
(* the code computes them.  Amounts are whole currency units.  Timestamps  *)
(* (timestamp_ms) are milliseconds counted from an instant that lies on an *)
(* hour boundary.                                                          *)
(***************************************************************************)
EXTENDS Integers, Sequences, FiniteSets, TLC

VARIABLES
    txs,             \* the validated transaction batch given to buildGraph
    graph,           \* GraphData returned by buildGraph
    pc,              \* position of the run in the pipeline
    nodeIdx,         \* index of the outer for-loop of the running detector
    foundCanonical,  \* detectCycles: canonical keys already emitted
    cycles,          \* detectCycles: results
    ringCounter,     \* ringCounter of the running detector
    smurfing,        \* detectSmurfing: results
    potentialShells, \* detectLayering: ids of shell accounts
    startNodes,      \* detectLayering: seeds, in order
    foundChains,     \* detectLayering: chain keys already emitted
    layering,        \* detectLayering: results
    cseq,            \* canonicalizeCycle: argument
    ckey,            \* canonicalizeCycle: returned key
    accountContexts, \* computeSuspicionScores: accountContexts
    suspiciousAccounts, \* computeSuspicionScores: returned list
    arg,             \* buildAnalysisResult: arguments of the call
    response,        \* POST: the response sent
    run,             \* number of the request on the same batch
    firstResponse,   \* the response to the first request
    rawText,         \* validateCSV: the text, as its lines are read
    csvRow,          \* validateCSV: row number of the line at hand (i + 1)
    csvErrors,       \* validateCSV: errors
    csvTransactions, \* validateCSV: transactions
    validation,      \* validateCSV: the returned CSVValidationResult
    stack            \* the explicit stack of the depth-first search at hand

analysisVars == <<accountContexts, suspiciousAccounts, arg, response, run,
                  firstResponse>>

csvVars == <<rawText, csvRow, csvErrors, csvTransactions, validation>>

vars == <<txs, graph, pc, nodeIdx, foundCanonical, cycles, ringCounter,
          smurfing, potentialShells, startNodes, foundChains, layering,
          cseq, ckey, accountContexts, suspiciousAccounts, arg, response,
          run, firstResponse, rawText, csvRow, csvErrors, csvTransactions,
          validation, stack>>

-----------------------------------------------------------------------------
(* Strings *)

BAR == 124      \* code unit of "|"

Min2(a, b) == IF a <= b THEN a ELSE b

\* JavaScript a < b on strings: lexicographic on code units, a proper prefix
\* is smaller.
StrLess(a, b) ==
    \E i \in 1..(Min2(Len(a), Len(b)) + 1) :
        /\ \A j \in 1..(i - 1) : a[j] = b[j]
        /\ IF i > Len(a) THEN i <= Len(b)
           ELSE i <= Len(b) /\ a[i] < b[i]

\* Array.prototype.join("|") on an array of strings.
RECURSIVE JoinBar(_)
JoinBar(ids) ==
    IF Len(ids) = 0 THEN <<>>
    ELSE IF Len(ids) = 1 THEN ids[1]
    ELSE ids[1] \o <<BAR>> \o JoinBar(Tail(ids))

Range(s) == {s[i] : i \in DOMAIN s}

\* Indices of the first occurrence of every value of s, ascending: the
\* insertion order of a Map or Set filled from s.
FirstIdx(s) ==
    SelectSeq([i \in 1..Len(s) |-> i],
              LAMBDA i : \A j \in 1..(i - 1) : s[j] # s[i])

\* A sequence written as a function [i \in 1..n |-> e], with every element
\* computed once.
Elements(f) == SubSeq(f, 1, Len(f))

Distinct(s) ==
    LET idx == FirstIdx(s) IN Elements([k \in DOMAIN idx |-> s[idx[k]]])

\* Array.prototype.sort((a, b) => a.timestamp_ms - b.timestamp_ms): stable,
\* so equal timestamps keep their order.
SortByTime(s) ==
    LET idx == SortSeq([i \in 1..Len(s) |-> i],
                   LAMBDA a, b :
                      \/ s[a].timestamp_ms < s[b].timestamp_ms
                      \/ s[a].timestamp_ms = s[b].timestamp_ms /\ a < b)
    IN  Elements([k \in 1..Len(s) |-> s[idx[k]]])

\* Sum of s[lo..hi] (halving keeps the nesting shallow on long lists).
RECURSIVE SumRange(_, _, _)
SumRange(s, lo, hi) ==
    IF lo > hi THEN 0
    ELSE IF lo = hi THEN s[lo]
    ELSE LET mid == (lo + hi) \div 2
         IN  SumRange(s, lo, mid) + SumRange(s, mid + 1, hi)

Sum(s) == SumRange(s, 1, Len(s))

Amounts(ts) == Elements([i \in DOMAIN ts |-> ts[i].amount])

-----------------------------------------------------------------------------
(* buildGraph *)

Endpoints(batch) ==
    Elements([i \in 1..(2 * Len(batch)) |->
                IF i % 2 = 1 THEN batch[(i + 1) \div 2].sender_id
                ELSE batch[i \div 2].receiver_id])

NodeOf(batch, a) ==
    LET ins  == SelectSeq(batch, LAMBDA t : t.receiver_id = a)
        outs == SelectSeq(batch, LAMBDA t : t.sender_id = a)
    IN  [account_id       |-> a,
         in_degree        |-> Len(ins),
         out_degree       |-> Len(outs),
         total_in_amount  |-> Sum(Amounts(ins)),
         total_out_amount |-> Sum(Amounts(outs)),
         in_transactions  |-> SortByTime(ins),
         out_transactions |-> SortByTime(outs)]

\* adjacency.get(s): the receivers of s in insertion order (keys) and the
\* transactions of every edge bucket, in batch order.
AdjOf(batch, s) ==
    LET outs == SelectSeq(batch, LAMBDA t : t.sender_id = s)
        keys == Distinct([i \in DOMAIN outs |-> outs[i].receiver_id])
    IN  [keys |-> keys,
         edge |-> [r \in Range(keys) |->
                     SelectSeq(outs, LAMBDA t : t.receiver_id = r)]]

buildGraph(batch) ==
    LET ids     == Distinct(Endpoints(batch))
        senders == {batch[i].sender_id : i \in DOMAIN batch}
    IN  [nodeIds   |-> ids,
         nodes     |-> [a \in Range(ids) |-> NodeOf(batch, a)],
         adjacency |-> [s \in senders |-> AdjOf(batch, s)]]

\* graph.adjacency.get(from)?.get(to), <<>> standing for undefined.
EdgeTxs(g, from, to) ==
    IF from \in DOMAIN g.adjacency /\ to \in DOMAIN g.adjacency[from].edge
    THEN g.adjacency[from].edge[to]
    ELSE <<>>

HasEdge(g, from, to) ==
    from \in DOMAIN g.adjacency /\ to \in DOMAIN g.adjacency[from].edge

AdjKeys(g, a) == IF a \in DOMAIN g.adjacency THEN g.adjacency[a].keys ELSE <<>>

-----------------------------------------------------------------------------
(* Ring ids *)

\* String(n): the decimal digits of n >= 0, as code units.
RECURSIVE DecimalString(_)
DecimalString(n) ==
    IF n < 10 THEN <<48 + n>>
    ELSE Append(DecimalString(n \div 10), 48 + (n % 10))

\* s.padStart(3, "0")
PadStart3(s) ==
    IF Len(s) >= 3 THEN s
    ELSE [i \in 1..(3 - Len(s)) |-> 48] \o s

\* `RING_${String(ringCounter).padStart(3, "0")}`
RingId(n) == <<82, 73, 78, 71, 95>> \o PadStart3(DecimalString(n))

-----------------------------------------------------------------------------
(* detectCycles *)

SEVENTY_TWO_HOURS_MS == 72 * 60 * 60 * 1000

CYCLE_CAP == 5000

MAX_CYCLE_DEPTH == 5

MIN_CYCLE_DEPTH == 3

\* The loop of canonicalizeCycle: the index of the first smallest id.
RECURSIVE MinIdxFrom(_, _, _)
MinIdxFrom(cycle, i, minIdx) ==
    IF i > Len(cycle) THEN minIdx
    ELSE MinIdxFrom(cycle, i + 1,
                    IF StrLess(cycle[i], cycle[minIdx]) THEN i ELSE minIdx)

\* The key without the rotation to the smallest id.
JoinUnrotated(cycle) == JoinBar(cycle)

canonicalizeCycle(cycle) ==
    LET n       == Len(cycle)
        minIdx  == MinIdxFrom(cycle, 2, 1)
        rotated == [i \in 1..n |-> cycle[((minIdx - 1 + i - 1) % n) + 1]]
    IN  JoinBar(rotated)

\* The transactions on the edges path[i] -> path[i+1], the last edge closing
\* the cycle; <<>> where the edge is missing.
CycleEdgeTxs(path, g) ==
    [i \in 1..Len(path) |-> EdgeTxs(g, path[i], path[(i % Len(path)) + 1])]

SetMin(S) == CHOOSE x \in S : \A y \in S : x <= y

SetMax(S) == CHOOSE x \in S : \A y \in S : y <= x

\* The span of the first transaction of every edge alone.
FirstTransactionSpan(path, g) ==
    LET e     == CycleEdgeTxs(path, g)
        times == {e[i][1].timestamp_ms : i \in DOMAIN e}
    IN  /\ \A i \in DOMAIN e : Len(e[i]) > 0
        /\ SetMax(times) - SetMin(times) <= SEVENTY_TWO_HOURS_MS

checkTemporalProximity(path, g) ==
    LET e     == CycleEdgeTxs(path, g)
        times == UNION {{e[i][k].timestamp_ms : k \in DOMAIN e[i]} : i \in DOMAIN e}
    IN  /\ \A i \in DOMAIN e : Len(e[i]) > 0
        /\ SetMax(times) - SetMin(times) <= SEVENTY_TWO_HOURS_MS

RECURSIVE Product(_)
Product(s) == IF Len(s) = 0 THEN 1 ELSE s[1] * Product(Tail(s))

\* edgeAmounts[i] = total[i] / count[i]; every average is scaled by the
\* product of the counts, which keeps the comparisons in the integers:
\* |ea - avg| / avg > 0.5  <=>  2 * |m * ea - sum| > sum.
checkAmountSimilarity(path, g) ==
    LET e      == CycleEdgeTxs(path, g)
        m      == Len(e)
        counts == [i \in DOMAIN e |-> Len(e[i])]
        d      == Product(counts)
        ea     == [i \in DOMAIN e |-> Sum(Amounts(e[i])) * (d \div counts[i])]
        total  == Sum(ea)
        Abs(x) == IF x < 0 THEN -x ELSE x
    IN  /\ \A i \in DOMAIN e : Len(e[i]) > 0
        /\ total # 0
        /\ \A i \in DOMAIN e : ~(2 * Abs(m * ea[i] - total) > total)

computeCycleRiskScore(cycleLength, temporalProximity, amountSimilarity) ==
    LET base  == IF cycleLength = 3 THEN 40
                 ELSE IF cycleLength >= 4 /\ cycleLength <= 5 THEN 30 ELSE 0
        score == base + (IF temporalProximity THEN 10 ELSE 0)
                      + (IF amountSimilarity THEN 10 ELSE 0)
    IN  Min2(100, IF score < 0 THEN 0 ELSE score)

\* The frames pushed for startNode before the while loop (lines 100-106).
CycleSeeds(g, startNode) ==
    LET keys == AdjKeys(g, startNode)
    IN  [i \in DOMAIN keys |->
            [node |-> keys[i], path |-> <<startNode, keys[i]>>,
             visited |-> {startNode, keys[i]}]]

\* The cycle test of a popped frame (lines 115-140); acc holds
\* foundCanonical, results and ringCounter.
CycleEmit(g, startNode, frame, acc) ==
    LET path      == frame.path
        canonical == canonicalizeCycle(path)
    IN  IF /\ Len(path) >= MIN_CYCLE_DEPTH
           /\ HasEdge(g, frame.node, startNode)
           /\ canonical \notin acc.found
        THEN LET tp == checkTemporalProximity(path, g)
                 as == checkAmountSimilarity(path, g)
                 rc == acc.ringCounter + 1
             IN  [found       |-> acc.found \cup {canonical},
                  ringCounter |-> rc,
                  results     |-> Append(acc.results,
                      [ring_id            |-> RingId(rc),
                       member_accounts    |-> path,
                       pattern_type       |-> "cycle",
                       risk_score         |-> computeCycleRiskScore(Len(path), tp, as),
                       cycle_length       |-> Len(path),
                       temporal_proximity |-> tp,
                       amount_similarity  |-> as])]
        ELSE acc

\* The expansion leaving its neighbour loop after the first neighbour.
ExpandFirstNeighbourOnly(g, startNode, frame) ==
    IF Len(frame.path) < MAX_CYCLE_DEPTH
    THEN LET all  == AdjKeys(g, frame.node)
             keys == SelectSeq(IF all = <<>> THEN <<>> ELSE <<all[1]>>,
                        LAMBDA nb : /\ ~(nb = startNode /\ Len(frame.path) >= 2)
                                    /\ nb \notin frame.visited)
         IN  [i \in DOMAIN keys |->
                [node |-> keys[i], path |-> Append(frame.path, keys[i]),
                 visited |-> frame.visited \cup {keys[i]}]]
    ELSE <<>>

\* The frames a popped frame pushes (lines 142-156), in push order.
\* The expansion with the depth test one too wide.
ExpandOneDeeper(g, startNode, frame) ==
    IF Len(frame.path) <= MAX_CYCLE_DEPTH
    THEN LET keys == SelectSeq(AdjKeys(g, frame.node),
                        LAMBDA nb : /\ ~(nb = startNode /\ Len(frame.path) >= 2)
                                    /\ nb \notin frame.visited)
         IN  [i \in DOMAIN keys |->
                [node |-> keys[i], path |-> Append(frame.path, keys[i]),
                 visited |-> frame.visited \cup {keys[i]}]]
    ELSE <<>>

CycleExpand(g, startNode, frame) ==
    IF Len(frame.path) < MAX_CYCLE_DEPTH
    THEN LET keys == SelectSeq(AdjKeys(g, frame.node),
                        LAMBDA nb : /\ ~(nb = startNode /\ Len(frame.path) >= 2)
                                    /\ nb \notin frame.visited)
         IN  [i \in DOMAIN keys |->
                [node |-> keys[i], path |-> Append(frame.path, keys[i]),
                 visited |-> frame.visited \cup {keys[i]}]]
    ELSE <<>>

\* TRUE of every detector state: its ringCounter is a number from 0 on.
\* Asked of a step's result, it has the result computed before the next
\* step starts, as the statements of the loop are run one after the other.
Computed(acc) == acc.ringCounter >= 0

\* The while loop on the explicit stack (lines 108-157).  pop() takes the
\* frame pushed last, and the frames a popped frame pushes lie above all
\* older ones, so each frame is handled together with everything below it
\* in the search tree before the frame pushed just before it is popped:
\* CycleDrain handles frames[k], frames[k-1], ..., frames[1] that way.
RECURSIVE CycleDrain(_, _, _, _, _)
CycleDrain(g, startNode, frames, k, acc) ==
    IF k = 0 THEN acc
    ELSE LET afterPop == CycleEmit(g, startNode, frames[k], acc)
             pushed   == CycleExpand(g, startNode, frames[k])
             below    == CycleDrain(g, startNode, pushed, Len(pushed), afterPop)
         IN  IF Computed(afterPop) /\ Computed(below)
             THEN CycleDrain(g, startNode, frames, k - 1, below)
             ELSE acc

\* One iteration of "for (const startNode of nodeIds)" up to the cap test.
CycleFromStart(g, startNode, acc) ==
    LET seeds == CycleSeeds(g, startNode)
    IN  CycleDrain(g, startNode, seeds, Len(seeds), acc)

\* The cap test closing the iteration (line 159).
CycleCapReached(results) == Len(results) > CYCLE_CAP

\* detectCycles as a whole, from iteration i on.
RECURSIVE CycleLoop(_, _, _)
CycleLoop(g, i, acc) ==
    IF i > Len(g.nodeIds) THEN acc
    ELSE LET next == CycleFromStart(g, g.nodeIds[i], acc)
         IN  IF CycleCapReached(next.results) THEN next
             ELSE CycleLoop(g, i + 1, next)

detectCycles(g) ==
    CycleLoop(g, 1, [found |-> {}, results |-> <<>>, ringCounter |-> 0]).results

-----------------------------------------------------------------------------
(* detectSmurfing *)

FAN_THRESHOLD == 10

SMURF_CAP == 500

HOUR_MS == 3600000

\* The timestamps of the batches are whole multiples of TimeGrain; a
\* coefficient of variation of time gaps is computed on gaps counted in
\* grains, which leaves it unchanged and keeps the squares small.
TimeGrain == 30 * 60 * 1000

getTimeWindows(transactions) ==
    LET sorted == SortByTime(transactions)
        key    == Elements([i \in DOMAIN sorted |->
                              sorted[i].timestamp_ms \div HOUR_MS])
        first  == FirstIdx(key)
    IN  Elements([k \in DOMAIN first |->
            [start_ms |-> sorted[first[k]].timestamp_ms,
             end_ms   |-> sorted[first[k]].timestamp_ms + SEVENTY_TWO_HOURS_MS]])

InWindow(tx, window) ==
    tx.timestamp_ms >= window.start_ms /\ tx.timestamp_ms <= window.end_ms

getUniqueSendersInWindow(inTxs, window) ==
    {inTxs[i].sender_id : i \in {j \in DOMAIN inTxs : InWindow(inTxs[j], window)}}

getUniqueReceiversInWindow(outTxs, window) ==
    {outTxs[i].receiver_id : i \in {j \in DOMAIN outTxs : InWindow(outTxs[j], window)}}

getAmountInWindow(ts, window) ==
    Sum(Amounts(SelectSeq(ts, LAMBDA tx : InWindow(tx, window))))

\* A velocity is the fraction num / den, den > 0.
computeVelocity(inAmount, outAmount) ==
    IF inAmount = 0 THEN [num |-> 0, den |-> 1]
    ELSE IF outAmount >= inAmount THEN [num |-> 1, den |-> 1]
    ELSE [num |-> outAmount, den |-> inAmount]

FracLess(a, b) == a.num * b.den < b.num * a.den

\* x / y >= 0.70 for y > 0
AtLeastSeventyPercent(x, y) == 10 * x >= 7 * y

\* stddev / avg < num / den for n values of sum s > 0 and sum of squares q:
\* variance = (n q - s^2) / n^2  and  avg^2 = s^2 / n^2.
CvBelow(n, s, q, num, den) ==
    den * den * (n * q - s * s) < num * num * s * s

Squares(v) == Elements([i \in DOMAIN v |-> v[i] * v[i]])

checkMerchantLike(nodeData) ==
    LET totalTx   == nodeData.in_degree + nodeData.out_degree
        inAmounts == Amounts(nodeData.in_transactions)
        total     == Sum(inAmounts)
    IN  /\ ~(totalTx <= 200 /\ nodeData.in_degree < 20)
        /\ ~(Len(inAmounts) < 10)
        /\ total # 0
        /\ CvBelow(Len(inAmounts), total, Sum(Squares(inAmounts)), 2, 5)
        /\ nodeData.in_degree > nodeData.out_degree * 3

\* amounts.every((a) => Math.abs(a - avg) / avg < 0.1), avg = total / n > 0
AllClose(amounts) ==
    LET n     == Len(amounts)
        total == Sum(amounts)
        Abs(x) == IF x < 0 THEN -x ELSE x
    IN  \A i \in DOMAIN amounts : 10 * Abs(n * amounts[i] - total) < total

\* the gap test of checkPayrollLike (lines 705-719) for >= 2 timestamps
PeriodicGaps(timestamps) ==
    LET sorted == SortSeq(timestamps, LAMBDA a, b : a < b)
        gaps   == [i \in 1..(Len(sorted) - 1) |->
                     (sorted[i + 1] - sorted[i]) \div TimeGrain]
        total  == Sum(gaps)
    IN  /\ Len(gaps) > 0
        /\ total > 0
        /\ CvBelow(Len(gaps), total, Sum(Squares(gaps)), 3, 10)

checkPayrollLike(nodeData) ==
    LET outTxs     == nodeData.out_transactions
        receivers  == {outTxs[i].receiver_id : i \in DOMAIN outTxs}
        PaidTo(r)  == SelectSeq(outTxs, LAMBDA tx : tx.receiver_id = r)
        \* receivers the loop does not skip: >= 2 payments, avg # 0
        counted    == {r \in receivers :
                          Len(PaidTo(r)) >= 2 /\ Sum(Amounts(PaidTo(r))) # 0}
        consistent == {r \in counted : AllClose(Amounts(PaidTo(r)))}
        periodic   == {r \in counted :
                          PeriodicGaps([i \in DOMAIN PaidTo(r) |->
                                           PaidTo(r)[i].timestamp_ms])}
        consistentCount  == Cardinality(consistent)
        periodicCount    == Cardinality(periodic)
        amountConsistent == 10 * consistentCount >= 7 * Cardinality(receivers)
        hasPeriodicity   == 2 * periodicCount >= Cardinality(receivers)
    IN  /\ ~(nodeData.out_degree < 5)
        /\ ~(Len(outTxs) < 5)
        /\ \/ amountConsistent
           \/ 2 * consistentCount >= Cardinality(receivers) /\ hasPeriodicity

checkStableRecurring(nodeData) ==
    LET ins   == nodeData.in_transactions
        outs  == nodeData.out_transactions
        parties == {ins[i].sender_id : i \in DOMAIN ins}
                      \cup {outs[i].receiver_id : i \in DOMAIN outs}
        Count(c) == Len(SelectSeq(ins, LAMBDA tx : tx.sender_id = c))
                      + Len(SelectSeq(outs, LAMBDA tx : tx.receiver_id = c))
        recurringCount == Cardinality({c \in parties : Count(c) >= 3})
    IN  /\ ~(Len(ins) + Len(outs) < 6)
        /\ 10 * recurringCount >= 6 * Cardinality(parties)

buildFalsePositiveProfile(nodeData) ==
    [is_merchant_like    |-> checkMerchantLike(nodeData),
     is_payroll_like     |-> checkPayrollLike(nodeData),
     is_stable_recurring |-> checkStableRecurring(nodeData)]

\* The scan "for (const window of windows)" (lines 770-798): every best
\* value is replaced only by a strictly larger one, so it ends as the
\* maximum over the windows and its window as the first one reaching it.
WindowScan(nodeData, windows) ==
    LET senders   == Elements([w \in DOMAIN windows |->
                        getUniqueSendersInWindow(nodeData.in_transactions, windows[w])])
        receivers == Elements([w \in DOMAIN windows |->
                        getUniqueReceiversInWindow(nodeData.out_transactions, windows[w])])
        vel       == Elements([w \in DOMAIN windows |->
                        computeVelocity(
                            getAmountInWindow(nodeData.in_transactions, windows[w]),
                            getAmountInWindow(nodeData.out_transactions, windows[w]))])
        bestFanIn  == SetMax({0} \cup {Cardinality(senders[w]) : w \in DOMAIN windows})
        bestFanOut == SetMax({0} \cup {Cardinality(receivers[w]) : w \in DOMAIN windows})
        inIdx  == IF bestFanIn = 0 THEN 0
                  ELSE SetMin({w \in DOMAIN windows : Cardinality(senders[w]) = bestFanIn})
        outIdx == IF bestFanOut = 0 THEN 0
                  ELSE SetMin({w \in DOMAIN windows : Cardinality(receivers[w]) = bestFanOut})
        velIdx == IF \A w \in DOMAIN windows : vel[w].num = 0 THEN 0
                  ELSE SetMin({w \in DOMAIN windows :
                                  \A u \in DOMAIN windows : ~FracLess(vel[w], vel[u])})
    IN  [bestFanIn          |-> bestFanIn,
         bestFanOut         |-> bestFanOut,
         bestVelocity       |-> IF velIdx = 0 THEN [num |-> 0, den |-> 1] ELSE vel[velIdx],
         bestFanInWindow    |-> inIdx,      \* index into windows, 0 for null
         bestFanOutWindow   |-> outIdx,
         bestFanInSenders   |-> IF inIdx = 0 THEN {} ELSE senders[inIdx],
         bestFanOutReceivers |-> IF outIdx = 0 THEN {} ELSE receivers[outIdx]]

\* The redistribution test (lines 805-828).
HasRedistribution(nodeData, windows, scan, isFanIn, isFanOut) ==
    LET afterFanIn ==
            /\ isFanIn /\ scan.bestFanInWindow # 0
            /\ LET w         == windows[scan.bestFanInWindow]
                   inAmount  == getAmountInWindow(nodeData.in_transactions, w)
                   outAmount == getAmountInWindow(nodeData.out_transactions,
                                   [start_ms |-> w.start_ms,
                                    end_ms   |-> w.end_ms + SEVENTY_TWO_HOURS_MS])
               IN  inAmount > 0 /\ AtLeastSeventyPercent(outAmount, inAmount)
        beforeFanOut ==
            /\ isFanOut /\ scan.bestFanOutWindow # 0
            /\ LET w         == windows[scan.bestFanOutWindow]
                   inAmount  == getAmountInWindow(nodeData.in_transactions,
                                   [start_ms |-> w.start_ms - SEVENTY_TWO_HOURS_MS,
                                    end_ms   |-> w.end_ms])
                   outAmount == getAmountInWindow(nodeData.out_transactions, w)
               IN  inAmount > 0 /\ AtLeastSeventyPercent(outAmount, inAmount)
    IN  afterFanIn \/ beforeFanOut

\* parseFloat(v.toFixed(3)) of the velocity num / den, in thousandths:
\* toFixed takes the nearest multiple of 0.001 and the larger one on a tie.
ToFixed3(v) == (2000 * v.num + v.den) \div (2 * v.den)

\* The suppression asking for both profiles at once.
SuppressedWhenBoth(nodeData) ==
    checkMerchantLike(nodeData) /\ checkPayrollLike(nodeData)

\* The hard suppression of a flagged hub (lines 830-831).
SmurfSuppressed(nodeData) ==
    LET fpProfile == buildFalsePositiveProfile(nodeData)
    IN  fpProfile.is_merchant_like \/ fpProfile.is_payroll_like

\* The members with the counterparties of both best windows, flagged or not.
SmurfMembersBothSides(nodeData, windows, scan, isFanIn, isFanOut) ==
    LET ins  == IF scan.bestFanInWindow # 0
                THEN SelectSeq(nodeData.in_transactions,
                        LAMBDA tx : InWindow(tx, windows[scan.bestFanInWindow]))
                ELSE <<>>
        outs == IF scan.bestFanOutWindow # 0
                THEN SelectSeq(nodeData.out_transactions,
                        LAMBDA tx : InWindow(tx, windows[scan.bestFanOutWindow]))
                ELSE <<>>
    IN  Distinct(<<nodeData.account_id>>
                    \o [i \in DOMAIN ins |-> ins[i].sender_id]
                    \o [i \in DOMAIN outs |-> outs[i].receiver_id])

\* Array.from(memberAccounts): the hub, then the senders, then the receivers,
\* each id once.  The senders and the receivers were put into their sets in
\* the order of the account's sorted transaction lists.
SmurfMembers(nodeData, windows, scan, isFanIn, isFanOut) ==
    LET ins  == IF isFanIn
                THEN SelectSeq(nodeData.in_transactions,
                        LAMBDA tx : InWindow(tx, windows[scan.bestFanInWindow]))
                ELSE <<>>
        outs == IF isFanOut
                THEN SelectSeq(nodeData.out_transactions,
                        LAMBDA tx : InWindow(tx, windows[scan.bestFanOutWindow]))
                ELSE <<>>
    IN  Distinct(<<nodeData.account_id>>
                    \o [i \in DOMAIN ins |-> ins[i].sender_id]
                    \o [i \in DOMAIN outs |-> outs[i].receiver_id])

\* One iteration of "for (const [accountId, nodeData] of graph.nodes)" up to
\* the cap test: the results with the pattern of this account appended, or
\* unchanged when the iteration ends in a continue.  acc holds results and
\* ringCounter.
SmurfAccount(nodeData, acc) ==
    LET allTxs   == nodeData.in_transactions \o nodeData.out_transactions
        windows  == getTimeWindows(allTxs)
        scan     == WindowScan(nodeData, windows)
        isFanIn  == scan.bestFanIn >= FAN_THRESHOLD
        isFanOut == scan.bestFanOut >= FAN_THRESHOLD
        hasRedistribution ==
                    HasRedistribution(nodeData, windows, scan, isFanIn, isFanOut)
        riskScore == (IF isFanIn THEN 35 ELSE 0) + (IF isFanOut THEN 35 ELSE 0)
                       + (IF AtLeastSeventyPercent(scan.bestVelocity.num,
                                                   scan.bestVelocity.den)
                          THEN 15 ELSE 0)
                       + (IF hasRedistribution THEN 10 ELSE 0)
        rc == acc.ringCounter + 1
    IN  IF Len(allTxs) = 0 THEN acc
        ELSE IF ~isFanIn /\ ~isFanOut THEN acc
        ELSE IF SmurfSuppressed(nodeData) THEN acc
        ELSE [ringCounter |-> rc,
              results |-> Append(acc.results,
                 [ring_id         |-> RingId(rc),
                  member_accounts |-> SmurfMembers(nodeData, windows, scan,
                                                   isFanIn, isFanOut),
                  pattern_type    |-> "smurfing",
                  risk_score      |-> Min2(100, riskScore),
                  hub_account     |-> nodeData.account_id,
                  direction       |-> IF isFanIn /\ isFanOut THEN "both"
                                      ELSE IF isFanIn THEN "fan_in" ELSE "fan_out",
                  velocity        |-> ToFixed3(scan.bestVelocity)])]

\* The cap test closing the iteration (line 873).
SmurfCapReached(results) == Len(results) > SMURF_CAP

\* The account loop of detectSmurfing from account i on.
RECURSIVE SmurfLoop(_, _, _)
SmurfLoop(g, i, acc) ==
    IF i > Len(g.nodeIds) THEN acc
    ELSE LET next == SmurfAccount(g.nodes[g.nodeIds[i]], acc)
         IN  IF SmurfCapReached(next.results) THEN next
             ELSE SmurfLoop(g, i + 1, next)

detectSmurfing(g, existingRingCount) ==
    SmurfLoop(g, 1, [results |-> <<>>, ringCounter |-> existingRingCount]).results

-----------------------------------------------------------------------------
(* detectLayering *)

MIN_HOP_COUNT == 3

MAX_HOPS == 8

SHELL_MIN_TX == 2

SHELL_MAX_TX == 3

LAYER_CAP == 500

isShellIntermediary(nodeData) ==
    LET totalTx == nodeData.in_degree + nodeData.out_degree
    IN  totalTx >= SHELL_MIN_TX /\ totalTx <= SHELL_MAX_TX

\* The transactions on the edges chain[i] -> chain[i+1].
ChainEdgeTxs(chain, g) ==
    [i \in 1..(Len(chain) - 1) |-> EdgeTxs(g, chain[i], chain[i + 1])]

Times(ts) == {ts[k].timestamp_ms : k \in DOMAIN ts}

checkTemporalContinuity(chain, g) ==
    LET e == ChainEdgeTxs(chain, g)
        m == Len(e)
    IN  /\ \A i \in DOMAIN e : Len(e[i]) > 0
        /\ \A i \in 2..m :
              ~(SetMin(Times(e[i])) < SetMax(Times(e[i - 1])) - SEVENTY_TWO_HOURS_MS)
        /\ SetMax(Times(e[m])) - SetMin(Times(e[1])) <= SEVENTY_TWO_HOURS_MS * 2

\* (maxAmount - minAmount) / maxAmount <= 0.5
checkAmountPreservation(chain, g) ==
    LET e           == ChainEdgeTxs(chain, g)
        edgeAmounts == {Sum(Amounts(e[i])) : i \in DOMAIN e}
        maxAmount   == SetMax(edgeAmounts)
        minAmount   == SetMin(edgeAmounts)
    IN  /\ \A i \in DOMAIN e : Len(e[i]) > 0
        /\ ~(Len(e) < 2)
        /\ maxAmount # 0
        /\ 2 * (maxAmount - minAmount) <= maxAmount

\* Step 1 (lines 129-134)
PotentialShells(g) == {a \in Range(g.nodeIds) : isShellIntermediary(g.nodes[a])}

\* Step 2 (lines 139-152), in the order of graph.nodes
StartNodes(g, shells) ==
    SelectSeq(g.nodeIds,
        LAMBDA a : /\ a \notin shells
                   /\ g.nodes[a].out_degree > 0
                   /\ \E nb \in Range(AdjKeys(g, a)) : nb \in shells)

\* The frames pushed for startNode before the while loop (lines 160-172).
LayerSeeds(g, shells, startNode) ==
    LET keys == SelectSeq(AdjKeys(g, startNode), LAMBDA nb : nb # startNode)
    IN  [i \in DOMAIN keys |->
            [node |-> keys[i], path |-> <<startNode, keys[i]>>,
             shellCount |-> IF keys[i] \in shells THEN 1 ELSE 0,
             visited |-> {startNode, keys[i]}]]

\* shellCount / intermediateCount >= SHELL_INTERMEDIATE_RATIO (0.70)
ShellRatioMet(shellCount, intermediateCount) ==
    intermediateCount > 0 /\ 100 * shellCount >= 70 * intermediateCount

\* The test of a popped frame without the test of line 195: a qualifying
\* path is pushed whatever its two evidence checks say.
EmitWithoutEvidence(g, frame, acc) ==
    LET path     == frame.path
        hopCount == Len(path) - 1
        chainKey == JoinBar(path)
        rc == acc.ringCounter + 1
    IN  IF /\ hopCount >= MIN_HOP_COUNT
           /\ ShellRatioMet(frame.shellCount, Len(path) - 2)
           /\ chainKey \notin acc.found
        THEN [found       |-> acc.found \cup {chainKey},
              ringCounter |-> rc,
              results     |-> Append(acc.results,
                  [ring_id         |-> RingId(rc),
                   member_accounts |-> path,
                   pattern_type    |-> "layering",
                   risk_score      |-> 25,
                   chain           |-> path,
                   hop_count       |-> hopCount])]
        ELSE acc

\* The test of a popped frame (lines 179-219); acc holds foundChains,
\* results and ringCounter.
LayerEmit(g, frame, acc) ==
    LET path     == frame.path
        hopCount == Len(path) - 1
        chainKey == JoinBar(path)
        hasTemporalCont == checkTemporalContinuity(path, g)
        hasAmountPres   == checkAmountPreservation(path, g)
        rc == acc.ringCounter + 1
        riskScore == 25 + (IF hopCount > 3 THEN 10 ELSE 0)
                        + (IF frame.shellCount >= 2 THEN 15 ELSE 0)
                        + (IF hasTemporalCont THEN 10 ELSE 0)
                        + (IF hasAmountPres THEN 10 ELSE 0)
    IN  IF /\ hopCount >= MIN_HOP_COUNT
           /\ ShellRatioMet(frame.shellCount, Len(path) - 2)
           /\ chainKey \notin acc.found
           /\ (hasTemporalCont \/ hasAmountPres)
        THEN [found       |-> acc.found \cup {chainKey},
              ringCounter |-> rc,
              results     |-> Append(acc.results,
                  [ring_id         |-> RingId(rc),
                   member_accounts |-> path,
                   pattern_type    |-> "layering",
                   risk_score      |-> Min2(100, riskScore),
                   chain           |-> path,
                   hop_count       |-> hopCount])]
        ELSE acc

\* The frames a popped frame pushes (lines 222-239), in push order.
LayerExpand(g, shells, frame) ==
    IF Len(frame.path) < MAX_HOPS + 1
    THEN LET keys == SelectSeq(AdjKeys(g, frame.node),
                               LAMBDA nb : nb \notin frame.visited)
         IN  [i \in DOMAIN keys |->
                [node |-> keys[i], path |-> Append(frame.path, keys[i]),
                 shellCount |-> frame.shellCount
                                  + (IF keys[i] \in shells THEN 1 ELSE 0),
                 visited |-> frame.visited \cup {keys[i]}]]
    ELSE <<>>

\* The while loop on the explicit stack (lines 174-240), as CycleDrain.
RECURSIVE LayerDrain(_, _, _, _, _)
LayerDrain(g, shells, frames, k, acc) ==
    IF k = 0 THEN acc
    ELSE LET afterPop == LayerEmit(g, frames[k], acc)
             pushed   == LayerExpand(g, shells, frames[k])
             below    == LayerDrain(g, shells, pushed, Len(pushed), afterPop)
         IN  IF Computed(afterPop) /\ Computed(below)
             THEN LayerDrain(g, shells, frames, k - 1, below)
             ELSE acc

\* One iteration of "for (const startNode of startNodes)" up to the cap test.
LayerFromStart(g, shells, startNode, acc) ==
    LET seeds == LayerSeeds(g, shells, startNode)
    IN  LayerDrain(g, shells, seeds, Len(seeds), acc)

\* The cap test closing the iteration (line 242).
LayerCapReached(results) == Len(results) > LAYER_CAP

\* The start-node loop of detectLayering from start node i on.
RECURSIVE LayerLoop(_, _, _, _, _)
LayerLoop(g, shells, starts, i, acc) ==
    IF i > Len(starts) THEN acc
    ELSE LET next == LayerFromStart(g, shells, starts[i], acc)
         IN  IF LayerCapReached(next.results) THEN next
             ELSE LayerLoop(g, shells, starts, i + 1, next)

detectLayering(g, existingRingCount) ==
    LET shells == PotentialShells(g)
        starts == IF shells = {} THEN <<>> ELSE StartNodes(g, shells)
    IN  LayerLoop(g, shells, starts, 1,
                  [found |-> {}, results |-> <<>>,
                   ringCounter |-> existingRingCount]).results

-----------------------------------------------------------------------------
(* detectLayering of src/lib/layeringDetector.ts, the module the POST       *)
(* handler imports as "@/lib/layeringDetector".  Its constants, shell test, *)
(* evidence checks, steps 1 and 2 and seeding are those above; the test of  *)
(* a popped frame and the depth limit differ.                               *)

LIB_MIN_HOPS == 3

\* The test of a popped frame (lines 134-162).
LibLayerEmit(g, frame, acc) ==
    LET path     == frame.path
        chainKey == JoinBar(path)
        hasTemporalCont == checkTemporalContinuity(path, g)
        hasAmountPres   == checkAmountPreservation(path, g)
        rc == acc.ringCounter + 1
        riskScore == 25 + (IF Len(path) > 3 THEN 10 ELSE 0)
                        + (IF frame.shellCount >= 2 THEN 15 ELSE 0)
                        + (IF hasTemporalCont THEN 10 ELSE 0)
                        + (IF hasAmountPres THEN 10 ELSE 0)
    IN  IF /\ Len(path) >= LIB_MIN_HOPS
           /\ frame.shellCount >= 1
           /\ chainKey \notin acc.found
           /\ (hasTemporalCont \/ hasAmountPres)
        THEN [found       |-> acc.found \cup {chainKey},
              ringCounter |-> rc,
              results     |-> Append(acc.results,
                  [ring_id         |-> RingId(rc),
                   member_accounts |-> path,
                   pattern_type    |-> "layering",
                   risk_score      |-> Min2(100, riskScore),
                   chain           |-> path,
                   hop_count       |-> Len(path) - 1])]
        ELSE acc

\* The frames a popped frame pushes (lines 164-181), in push order.
LibLayerExpand(g, shells, frame) ==
    IF Len(frame.path) < MAX_HOPS
    THEN LET keys == SelectSeq(AdjKeys(g, frame.node),
                               LAMBDA nb : nb \notin frame.visited)
         IN  [i \in DOMAIN keys |->
                [node |-> keys[i], path |-> Append(frame.path, keys[i]),
                 shellCount |-> frame.shellCount
                                  + (IF keys[i] \in shells THEN 1 ELSE 0),
                 visited |-> frame.visited \cup {keys[i]}]]
    ELSE <<>>

\* The while loop on the explicit stack (lines 128-182).
RECURSIVE LibLayerDrain(_, _, _, _, _)
LibLayerDrain(g, shells, frames, k, acc) ==
    IF k = 0 THEN acc
    ELSE LET afterPop == LibLayerEmit(g, frames[k], acc)
             pushed   == LibLayerExpand(g, shells, frames[k])
             below    == LibLayerDrain(g, shells, pushed, Len(pushed), afterPop)
         IN  IF Computed(afterPop) /\ Computed(below)
             THEN LibLayerDrain(g, shells, frames, k - 1, below)
             ELSE acc

\* One iteration of "for (const startNode of startNodes)" up to the cap test.
LibLayerFromStart(g, shells, startNode, acc) ==
    LET seeds == LayerSeeds(g, shells, startNode)
    IN  LibLayerDrain(g, shells, seeds, Len(seeds), acc)

-----------------------------------------------------------------------------
(* computeSuspicionScores of lib/scoring.ts *)

\* Pattern labels, as code units.
CYCLE_LENGTH_ == <<99, 121, 99, 108, 101, 95, 108, 101, 110, 103, 116, 104, 95>>

FAN_IN == <<102, 97, 110, 95, 105, 110>>

FAN_OUT == <<102, 97, 110, 95, 111, 117, 116>>

HIGH_VELOCITY == <<104, 105, 103, 104, 95, 118, 101, 108, 111, 99, 105, 116, 121>>

LAYERED_SHELL == <<108, 97, 121, 101, 114, 101, 100, 95, 115, 104, 101, 108, 108>>

computeCycleContribution(cycle) ==
    (IF cycle.cycle_length = 3 THEN 40
     ELSE IF cycle.cycle_length >= 4 /\ cycle.cycle_length <= 5 THEN 30 ELSE 0)
    + (IF cycle.temporal_proximity THEN 10 ELSE 0)
    + (IF cycle.amount_similarity THEN 10 ELSE 0)

\* pattern.velocity >= 0.7 on the velocity kept in thousandths
HighVelocity(pattern) == pattern.velocity >= 700

computeSmurfingContribution(pattern) ==
    (IF pattern.direction \in {"fan_in", "both"} THEN 35 ELSE 0)
    + (IF pattern.direction \in {"fan_out", "both"} THEN 35 ELSE 0)
    + (IF HighVelocity(pattern) THEN 15 ELSE 0)

\* The contribution without its base of 25.
HopBonusOnly(pattern) == IF pattern.hop_count > 3 THEN 10 ELSE 0

computeLayeringContribution(pattern) ==
    25 + (IF pattern.hop_count > 3 THEN 10 ELSE 0)

applyFalsePositiveDeductions(score, fp) ==
    score - (IF fp.is_merchant_like THEN 30 ELSE 0)
          - (IF fp.is_payroll_like THEN 30 ELSE 0)
          - (IF fp.is_stable_recurring THEN 15 ELSE 0)

\* The deduction without the test of line 109: the members of cycles are
\* treated as every other account.
DeductionOnCyclesToo(accountId, g, cycleParticipants) ==
    IF accountId \notin DOMAIN g.nodes THEN 0
    ELSE LET nodeData   == g.nodes[accountId]
             allAmounts == Amounts(nodeData.in_transactions)
                              \o Amounts(nodeData.out_transactions)
             total      == Sum(allAmounts)
         IN  IF nodeData.in_degree + nodeData.out_degree <= 200 THEN 0
             ELSE IF total = 0 THEN 0
             ELSE IF CvBelow(Len(allAmounts), total, Sum(Squares(allAmounts)), 3, 10)
                  THEN 40
             ELSE 0

computeHighVolumeMerchantDeduction(accountId, g, cycleParticipants) ==
    IF accountId \notin DOMAIN g.nodes THEN 0
    ELSE LET nodeData   == g.nodes[accountId]
             totalTx    == nodeData.in_degree + nodeData.out_degree
             allAmounts == Amounts(nodeData.in_transactions)
                              \o Amounts(nodeData.out_transactions)
             total      == Sum(allAmounts)
         IN  IF totalTx <= 200 THEN 0
             ELSE IF accountId \in cycleParticipants THEN 0
             ELSE IF Len(allAmounts) = 0 THEN 0
             ELSE IF total = 0 THEN 0
             ELSE IF CvBelow(Len(allAmounts), total, Sum(Squares(allAmounts)), 3, 10)
                  THEN 40
             ELSE 0

\* accountContexts: the keys in insertion order and the context of each key.
EmptyContexts == [order |-> <<>>, ctx |-> <<>>]

NewContext ==
    [cycleScores |-> <<>>, smurfingScores |-> <<>>, layeringScores |-> <<>>,
     patterns |-> <<>>, ringIds |-> <<>>]

\* Set.prototype.add on a set kept in insertion order
SetAdd(seq, x) == IF x \in Range(seq) THEN seq ELSE Append(seq, x)

RECURSIVE SetAddAll(_, _)
SetAddAll(seq, xs) ==
    IF xs = <<>> THEN seq ELSE SetAddAll(SetAdd(seq, Head(xs)), Tail(xs))

ensureContext(contexts, accountId) ==
    IF accountId \in DOMAIN contexts.ctx THEN contexts
    ELSE [order |-> Append(contexts.order, accountId),
          ctx   |-> contexts.ctx @@ (accountId :> NewContext)]

\* The body of a member loop (lines 185-190, 199-215, 224-230): the
\* contribution pushed on the family's list, the labels added, the ring id
\* pushed when absent.
NoteMember(contexts, accountId, family, contribution, labels, ringId) ==
    LET c   == ensureContext(contexts, accountId)
        old == c.ctx[accountId]
        new == [cycleScores    |-> IF family = "cycle"
                                   THEN Append(old.cycleScores, contribution)
                                   ELSE old.cycleScores,
                smurfingScores |-> IF family = "smurfing"
                                   THEN Append(old.smurfingScores, contribution)
                                   ELSE old.smurfingScores,
                layeringScores |-> IF family = "layering"
                                   THEN Append(old.layeringScores, contribution)
                                   ELSE old.layeringScores,
                patterns       |-> SetAddAll(old.patterns, labels),
                ringIds        |-> SetAdd(old.ringIds, ringId)]
    IN  [order |-> c.order, ctx |-> [c.ctx EXCEPT ![accountId] = new]]

\* True of every contexts value; its test makes the value be computed before
\* the loop goes on with it, as Computed does in CycleDrain.
Noted(contexts) == Len(contexts.order) >= 0

\* "for (const accountId of ring.member_accounts)" from member i on
RECURSIVE NoteMembers(_, _, _, _, _, _, _)
NoteMembers(contexts, members, i, family, contribution, labels, ringId) ==
    IF i > Len(members) THEN contexts
    ELSE LET next == NoteMember(contexts, members[i], family, contribution,
                                labels, ringId)
         IN  IF Noted(next)
             THEN NoteMembers(next, members, i + 1, family, contribution,
                              labels, ringId)
             ELSE contexts

CycleLabels(cycle) == <<CYCLE_LENGTH_ \o DecimalString(cycle.cycle_length)>>

SmurfingLabels(pattern) ==
    (IF pattern.direction \in {"fan_in", "both"} THEN <<FAN_IN>> ELSE <<>>)
    \o (IF pattern.direction \in {"fan_out", "both"} THEN <<FAN_OUT>> ELSE <<>>)
    \o (IF HighVelocity(pattern) THEN <<HIGH_VELOCITY>> ELSE <<>>)

LayeringLabels(pattern) == <<LAYERED_SHELL>>

\* One ring of either family noted for all its members.
NoteRing(contexts, ring) ==
    IF ring.pattern_type = "cycle"
    THEN NoteMembers(contexts, ring.member_accounts, 1, "cycle",
                     computeCycleContribution(ring), CycleLabels(ring),
                     ring.ring_id)
    ELSE IF ring.pattern_type = "smurfing"
    THEN NoteMembers(contexts, ring.member_accounts, 1, "smurfing",
                     computeSmurfingContribution(ring), SmurfingLabels(ring),
                     ring.ring_id)
    ELSE NoteMembers(contexts, ring.member_accounts, 1, "layering",
                     computeLayeringContribution(ring), LayeringLabels(ring),
                     ring.ring_id)

\* A loop over the rings of one detector (lines 179-192, 195-217, 220-232).
RECURSIVE NoteRings(_, _, _)
NoteRings(contexts, rings, k) ==
    IF k > Len(rings) THEN contexts
    ELSE LET next == NoteRing(contexts, rings[k])
         IN  IF Noted(next) THEN NoteRings(next, rings, k + 1) ELSE contexts

\* The three loops in their order (lines 178-232).
AccumulateContexts(cycleResults, smurfingResults, layeringResults) ==
    NoteRings(NoteRings(NoteRings(EmptyContexts, cycleResults, 1),
                        smurfingResults, 1),
              layeringResults, 1)

\* cycleParticipants (lines 158-163)
CycleParticipants(cycleResults) ==
    UNION {Range(cycleResults[k].member_accounts) : k \in DOMAIN cycleResults}

MaxOf(scores) == SetMax(Range(scores))

\* rawScore after lines 241-249: the sum of the maxima of the families.
FamilyMaxSum(ctx) ==
    (IF Len(ctx.cycleScores) > 0 THEN MaxOf(ctx.cycleScores) ELSE 0)
    + (IF Len(ctx.smurfingScores) > 0 THEN MaxOf(ctx.smurfingScores) ELSE 0)
    + (IF Len(ctx.layeringScores) > 0 THEN MaxOf(ctx.layeringScores) ELSE 0)

\* rawScore after lines 252-259: the deductions taken off.
RawScore(accountId, ctx, g, cycleParticipants) ==
    LET afterProfile ==
            IF accountId \in DOMAIN g.nodes
            THEN applyFalsePositiveDeductions(FamilyMaxSum(ctx),
                     buildFalsePositiveProfile(g.nodes[accountId]))
            ELSE FamilyMaxSum(ctx)
    IN  afterProfile
            - computeHighVolumeMerchantDeduction(accountId, g, cycleParticipants)

Max2(a, b) == IF a >= b THEN a ELSE b

\* The score as it is, without a clamp.
NotClamped(rawScore) == rawScore

\* The clamp with 1 as its floor.
ClampedFromOne(rawScore) == Min2(100, Max2(1, rawScore))

\* parseFloat(Math.min(100, Math.max(0, rawScore)).toFixed(1)): rawScore is
\* a sum of whole numbers, which toFixed(1) and parseFloat give back.
ClampedScore(rawScore) == Min2(100, Max2(0, rawScore))

\* The labels in the order in which they were added.
InsertionOrder(labels) == labels

\* Array.prototype.sort() without a comparator, on strings
SortLabels(labels) == SortSeq(labels, StrLess)

EmptyString == <<>>

\* The entry of an account with the ring noted last for it.
SuspiciousAccountLastRing(accountId, ctx, clampedScore) ==
    [account_id        |-> accountId,
     suspicion_score   |-> clampedScore,
     detected_patterns |-> SortLabels(ctx.patterns),
     ring_id           |-> IF Len(ctx.ringIds) > 0
                           THEN ctx.ringIds[Len(ctx.ringIds)]
                           ELSE EmptyString]

\* The entry pushed for one account (lines 265-271).
SuspiciousAccount(accountId, ctx, clampedScore) ==
    [account_id        |-> accountId,
     suspicion_score   |-> clampedScore,
     detected_patterns |-> SortLabels(ctx.patterns),
     ring_id           |-> IF Len(ctx.ringIds) > 0 THEN ctx.ringIds[1]
                           ELSE EmptyString]

\* "for (const [accountId, ctx] of accountContexts)" (lines 237-273)
FinalScores(contexts, g, cycleParticipants) ==
    LET all == [i \in DOMAIN contexts.order |->
                  LET id == contexts.order[i]
                  IN  SuspiciousAccount(id, contexts.ctx[id],
                          ClampedScore(RawScore(id, contexts.ctx[id], g,
                                                cycleParticipants)))]
    IN  SelectSeq(Elements(all), LAMBDA sa : sa.suspicion_score > 0)

\* The list left in the order of accountContexts.
NotSorted(s) == s

\* suspiciousAccounts.sort((a, b) => b.suspicion_score - a.suspicion_score):
\* stable, so equal scores keep their order.
SortByScore(s) ==
    LET idx == SortSeq([i \in 1..Len(s) |-> i],
                   LAMBDA a, b :
                      \/ s[a].suspicion_score > s[b].suspicion_score
                      \/ s[a].suspicion_score = s[b].suspicion_score /\ a < b)
    IN  Elements([k \in 1..Len(s) |-> s[idx[k]]])

computeSuspicionScores(g, cycleResults, smurfingResults, layeringResults) ==
    SortByScore(FinalScores(
        AccumulateContexts(cycleResults, smurfingResults, layeringResults),
        g, CycleParticipants(cycleResults)))

-----------------------------------------------------------------------------
(* buildAnalysisResult and validateAnalysisResult (jsonBuilder) *)

\* A JavaScript value in a numeric field: a finite number counted in
\* thousandths, NaN, an infinity, or undefined.
Num(v) == [kind |-> "number", val |-> v]

NaN == [kind |-> "NaN", val |-> 0]

PosInfinity == [kind |-> "Infinity", val |-> 0]

NegInfinity == [kind |-> "-Infinity", val |-> 0]

Undefined == [kind |-> "undefined", val |-> 0]

\* A whole number of points as a JavaScript number
Points(x) == Num(1000 * x)

TypeofNumber(x) == x.kind # "undefined"

isNaN(x) == x.kind \in {"NaN", "undefined"}

IsFiniteNumber(x) == x.kind = "number"

\* a > b on JavaScript numbers
NumGreater(a, b) ==
    \/ a.kind = "number" /\ b.kind = "number" /\ a.val > b.val
    \/ a.kind = "Infinity" /\ b.kind \in {"number", "-Infinity"}
    \/ a.kind = "number" /\ b.kind = "-Infinity"

\* The multiple of unit nearest to v thousandths, the one further from zero
\* when v is half-way (toFixed on a value that is exactly representable).
RoundTo(v, unit) ==
    IF v >= 0 THEN ((2 * v + unit) \div (2 * unit)) * unit
    ELSE 0 - ((2 * (0 - v) + unit) \div (2 * unit)) * unit

\* parseFloat(x.toFixed(digits)); an infinity prints as "Infinity" and
\* parses back.
Fixed(x, unit) == IF x.kind = "number" THEN Num(RoundTo(x.val, unit)) ELSE x

toFixed1(value) ==
    Fixed(IF TypeofNumber(value) /\ ~isNaN(value) THEN value ELSE Num(0), 100)

toFixed2(value) ==
    Fixed(IF TypeofNumber(value) /\ ~isNaN(value) THEN value ELSE Num(0), 10)

ALLOWED_PATTERNS ==
    {CYCLE_LENGTH_ \o DecimalString(3), CYCLE_LENGTH_ \o DecimalString(4),
     CYCLE_LENGTH_ \o DecimalString(5), FAN_IN, FAN_OUT, HIGH_VELOCITY,
     LAYERED_SHELL}

\* The first index of s whose element fails ok, 0 when none does.
FirstFailing(s, ok(_)) ==
    IF \A i \in DOMAIN s : ok(s[i]) THEN 0
    ELSE SetMin({i \in DOMAIN s : ~ok(s[i])})

\* The message of the first failing test of one suspicious account (lines
\* 74-90), "null" when it passes all.
AccountError(sa) ==
    IF sa.account_id = EmptyString THEN "Invalid account_id"
    ELSE IF ~TypeofNumber(sa.suspicion_score) \/ isNaN(sa.suspicion_score)
    THEN "Invalid suspicion_score"
    ELSE IF \E i \in DOMAIN sa.detected_patterns :
                sa.detected_patterns[i] \notin ALLOWED_PATTERNS
    THEN "Unknown pattern label"
    ELSE "null"

\* The message of the first failing test of one ring (lines 94-107).
RingError(ring) ==
    IF ring.ring_id = EmptyString THEN "Invalid ring_id"
    ELSE IF Len(ring.member_accounts) = 0
    THEN "member_accounts must be a non-empty array"
    ELSE IF ~TypeofNumber(ring.risk_score) \/ isNaN(ring.risk_score)
    THEN "Invalid risk_score"
    ELSE "null"

\* null (valid) or the error message; the tests of the types of the arrays,
\* of the ids and of the summary fields cannot fail on a result built by
\* buildAnalysisResult from typed arguments.
validateAnalysisResult(result) ==
    LET sas     == result.suspicious_accounts
        rings   == result.fraud_rings
        badAcct == FirstFailing(sas, LAMBDA sa : AccountError(sa) = "null")
        badRing == FirstFailing(rings, LAMBDA r : RingError(r) = "null")
    IN  IF \E i \in 2..Len(sas) :
              NumGreater(sas[i].suspicion_score, sas[i - 1].suspicion_score)
        THEN "suspicious_accounts must be sorted descending by suspicion_score"
        ELSE IF badAcct # 0 THEN AccountError(sas[badAcct])
        ELSE IF badRing # 0 THEN RingError(rings[badRing])
        ELSE "null"

FraudRingOutput(pattern) ==
    [ring_id         |-> pattern.ring_id,
     member_accounts |-> pattern.member_accounts,
     pattern_type    |-> pattern.pattern_type,
     risk_score      |-> toFixed1(pattern.risk_score)]

CleanAccount(sa) ==
    [account_id        |-> sa.account_id,
     suspicion_score   |-> toFixed1(sa.suspicion_score),
     detected_patterns |-> sa.detected_patterns,
     ring_id           |-> sa.ring_id]

\* The result assembled by lines 144-188, before its validation.
AssembledResult(a) ==
    LET fraudRings ==
            Elements([i \in DOMAIN a.cycles |-> FraudRingOutput(a.cycles[i])])
            \o Elements([i \in DOMAIN a.smurfingPatterns |->
                            FraudRingOutput(a.smurfingPatterns[i])])
            \o Elements([i \in DOMAIN a.layeringPatterns |->
                            FraudRingOutput(a.layeringPatterns[i])])
        cleanAccounts ==
            Elements([i \in DOMAIN a.suspiciousAccounts |->
                         CleanAccount(a.suspiciousAccounts[i])])
    IN  [suspicious_accounts |-> cleanAccounts,
         fraud_rings         |-> fraudRings,
         summary |->
            [total_accounts_analyzed     |-> a.nodeCount,
             suspicious_accounts_flagged |-> Len(cleanAccounts),
             fraud_rings_detected        |-> Len(fraudRings),
             processing_time_seconds     |-> toFixed2(a.processingTimeSeconds)]]

\* buildAnalysisResult: the result, or the message of the Error thrown.
buildAnalysisResult(a) ==
    LET result          == AssembledResult(a)
        validationError == validateAnalysisResult(result)
    IN  IF validationError # "null"
        THEN [thrown |-> TRUE, message |-> validationError, result |-> result]
        ELSE [thrown |-> FALSE, message |-> "null", result |-> result]

\* The response of POST: NextResponse.json(result, 200), or the catch
\* block's 500.
ResponseOf(built) ==
    IF built.thrown THEN [status |-> 500, error |-> built.message]
    ELSE [status |-> 200, body |-> built.result]

-----------------------------------------------------------------------------
(* Transaction batches *)

Tx(i, s, r, amt, t) ==
    [transaction_id |-> i, sender_id |-> s, receiver_id |-> r,
     amount |-> amt, timestamp_ms |-> t]

Reverse(s) == [i \in DOMAIN s |-> s[Len(s) + 1 - i]]

\* Account ids: a letter, or a letter followed by a decimal number.
IdA == <<65>>
IdB == <<66>>
IdAbarB == <<65, BAR, 66>>      \* "A|B"
IdBbarA == <<66, BAR, 65>>      \* "B|A"
Named(letter, i) == <<letter>> \o DecimalString(i)

\* Small batches on four accounts: every subset of CycleUniverse, in the
\* order written and in the opposite order.
CycleUniverse ==
    << Tx(1, IdA, IdB, 100, 0),
       Tx(2, IdB, IdA, 120, HOUR_MS),
       Tx(3, IdA, IdBbarA, 100, 2 * HOUR_MS),
       Tx(4, IdBbarA, IdB, 110, 3 * HOUR_MS),
       Tx(5, IdB, IdAbarB, 90, 4 * HOUR_MS),
       Tx(6, IdAbarB, IdA, 100, 5 * HOUR_MS),
       Tx(7, IdA, IdA, 100, 6 * HOUR_MS),
       Tx(8, IdAbarB, IdBbarA, 900, 100 * HOUR_MS) >>

CycleBatches ==
    UNION {{SelectSeq(CycleUniverse, LAMBDA t : t.transaction_id \in S),
            Reverse(SelectSeq(CycleUniverse, LAMBDA t : t.transaction_id \in S))} :
           S \in SUBSET (1..Len(CycleUniverse))}

\* Numbers of a batch's transactions: base + 1, base + 2, ...
Renumber(batch, base) ==
    [i \in DOMAIN batch |-> [batch[i] EXCEPT !.transaction_id = base + i]]

\* Fan batches: MinFan..MaxFan counterparties P1..Pn around the hub H1.
MinFan == 9
MaxFan == 11

FanStart == 10 * HOUR_MS + TimeGrain     \* half past an hour

\* Offsets of the last counterparty's transaction from the first one's:
\* inside the 72 hours, exactly 72 hours, 30 minutes more.
FanLastOffsets ==
    {SEVENTY_TWO_HOURS_MS - TimeGrain, SEVENTY_TWO_HOURS_MS,
     SEVENTY_TWO_HOURS_MS + TimeGrain}

FanTime(i, n, lastOff) ==
    IF i = 1 THEN FanStart
    ELSE IF i = n THEN FanStart + lastOff
    ELSE FanStart + (i - 1) * HOUR_MS

\* One transaction between the hub and counterparty i; dir = "in" sends to
\* the hub, dir = "out" sends from it.
FanTx(dir, i, amt, t) ==
    IF dir = "in" THEN Tx(0, Named(80, i), Named(72, 1), amt, t)
    ELSE Tx(0, Named(72, 1), Named(80, i), amt, t)

\* n counterparties, each with `copies` equal transactions; with early, one
\* more transaction of counterparty 2 on the full hour before FanStart; with
\* flow, one transaction on the hub's other side.
FanBatch(dir, n, lastOff, copies, early, flow) ==
    LET main  == [k \in 1..(n * copies) |->
                    LET i == ((k - 1) \div copies) + 1
                    IN  FanTx(dir, i, 100, FanTime(i, n, lastOff))]
        pre   == IF early THEN <<FanTx(dir, 2, 100, FanStart - TimeGrain)>> ELSE <<>>
        other == IF ~flow THEN <<>>
                 ELSE IF dir = "in"
                 THEN <<Tx(0, Named(72, 1), Named(88, 1), 80 * n, FanStart + 2 * HOUR_MS)>>
                 ELSE <<Tx(0, Named(88, 1), Named(72, 1), 100 * n, FanStart)>>
    IN  Renumber(main \o pre \o other, 100)

FanBatches ==
    {FanBatch(dir, n, lastOff, copies, early, flow) :
        dir \in {"in", "out"}, n \in MinFan..MaxFan, lastOff \in FanLastOffsets,
        copies \in 1..2, early \in BOOLEAN, flow \in BOOLEAN}

\* A merchant: MerchantTxs incoming payments of amt or amt + spread from
\* the counterparties P1..P12 in turn, two per half hour.
MerchantTxs == 250

MerchantBatch(amt, spread) ==
    Renumber([k \in 1..MerchantTxs |->
                 FanTx("in", ((k - 1) % 12) + 1, amt + (k % 2) * spread,
                       FanStart + (k \div 2) * TimeGrain)],
             100)

\* Payments of 10, of 10 and 11, and of 0.
MerchantBatches == {MerchantBatch(10, 0), MerchantBatch(10, 1), MerchantBatch(0, 0)}

\* Chain batches: N0 -> N1 -> N2 -> N3, optionally -> N4.  busy1 / busy2
\* give N1 / N2 two more incoming payments (from W11, W12 / W21, W22);
\* gap is the time from one hop to the next; decay lets the amount fall
\* from hop to hop.
ChainStart == 200 * HOUR_MS

ChainGaps == {HOUR_MS, 80 * HOUR_MS, 0 - 80 * HOUR_MS}

ChainBatch(busy1, busy2, tail, gap, decay) ==
    LET N(i)   == Named(78, i)
        Amt(k) == IF decay THEN 5000 \div (k * k) ELSE 5000 - 100 * (k - 1)
        hops   == [k \in 1..(IF tail THEN 4 ELSE 3) |->
                     Tx(0, N(k - 1), N(k), Amt(k), ChainStart + (k - 1) * gap)]
        Extra(i) == <<Tx(0, Named(87, 10 * i + 1), N(i), 1, ChainStart),
                      Tx(0, Named(87, 10 * i + 2), N(i), 1, ChainStart)>>
    IN  Renumber(hops \o (IF busy1 THEN Extra(1) ELSE <<>>)
                      \o (IF busy2 THEN Extra(2) ELSE <<>>), 500)

\* Hops of the long chain.
LongChainHops == 10

\* M0 -> M1 -> ... one hour apart, with slowly falling amounts: every
\* account but the two ends has two transactions.
LongChainBatch(hops) ==
    Renumber([k \in 1..hops |->
                 Tx(0, Named(77, k - 1), Named(77, k), 5000 - 10 * k,
                    ChainStart + k * HOUR_MS)],
             700)

ChainBatches ==
    {ChainBatch(busy1, busy2, tail, gap, decay) :
        busy1 \in BOOLEAN, busy2 \in BOOLEAN, tail \in BOOLEAN,
        gap \in ChainGaps, decay \in BOOLEAN}
    \cup {LongChainBatch(hops) : hops \in (MAX_HOPS - 1)..LongChainHops}

\* The batch with account `from` renamed to `to` and transaction numbers
\* base + 1, base + 2, ...
Rename(batch, from, to, base) ==
    LET R(a) == IF a = from THEN to ELSE a
    IN  Renumber([i \in DOMAIN batch |->
                    [batch[i] EXCEPT !.sender_id = R(@), !.receiver_id = R(@)]],
                 base)

\* Batches holding a cycle part, a fan part and a chain part; the second
\* fan part has two hubs, H1 and H2, H2 with every payment doubled.
MixedBatches ==
    {c \o f \o l :
        c \in {CycleUniverse, SubSeq(CycleUniverse, 3, 7)},
        f \in {FanBatch("in", 10, SEVENTY_TWO_HOURS_MS, 1, FALSE, TRUE),
               FanBatch("in", 10, SEVENTY_TWO_HOURS_MS, 1, FALSE, FALSE) \o
                   Rename(FanBatch("in", 10, SEVENTY_TWO_HOURS_MS, 2, FALSE, FALSE),
                          Named(72, 1), Named(72, 2), 300),
               FanBatch("out", 11, SEVENTY_TWO_HOURS_MS, 1, TRUE, FALSE)},
        l \in {ChainBatch(FALSE, FALSE, TRUE, HOUR_MS, FALSE),
               ChainBatch(FALSE, TRUE, TRUE, 80 * HOUR_MS, TRUE),
               ChainBatch(FALSE, TRUE, TRUE, 80 * HOUR_MS, TRUE)
                   \o LongChainBatch(MIN_HOP_COUNT + 1)}}

IdC == <<67>>

\* A -> B, B -> C, C -> A, an hour apart, with the amount of B -> C given.
ThreeCycleBatch(amount) ==
    << Tx(1, IdA, IdB, 1000, 10 * HOUR_MS),
       Tx(2, IdB, IdC, amount, 11 * HOUR_MS),
       Tx(3, IdC, IdA, 1000, 12 * HOUR_MS) >>

\* The three-cycle of equal amounts.
ExampleCycleBatch == ThreeCycleBatch(1000)

\* The three-cycle alone, with a second transaction on A -> B hours later,
\* with an amount out of line, and a four-cycle A -> B -> C -> A|B -> A.
ExampleCycleBatches ==
    {ExampleCycleBatch,
     ExampleCycleBatch \o <<Tx(4, IdA, IdB, 1000, 82 * HOUR_MS)>>,
     ExampleCycleBatch \o <<Tx(4, IdA, IdB, 1000, 83 * HOUR_MS)>>,
     ThreeCycleBatch(4000),
     SubSeq(ExampleCycleBatch, 1, 2)
         \o <<Tx(4, IdC, IdAbarB, 1000, 12 * HOUR_MS),
              Tx(5, IdAbarB, IdA, 1000, 13 * HOUR_MS)>>}

\* Ten senders P1..P10 within 72 hours of the first, and then: the hub paying
\* P1 back; or an eleventh sender an hour after the window of the first has
\* closed, so that the window of the second sender holds ten senders too.
MemberBatches ==
    LET fan == FanBatch("in", FAN_THRESHOLD, SEVENTY_TWO_HOURS_MS, 1, FALSE,
                        FALSE)
    IN  {fan \o <<Tx(200, Named(72, 1), Named(80, 1), 50,
                     FanStart + 2 * HOUR_MS)>>,
         fan \o <<Tx(200, Named(80, FAN_THRESHOLD + 1), Named(72, 1), 100,
                     FanStart + SEVENTY_TWO_HOURS_MS + HOUR_MS)>>}

\* Ten senders paying the hub 1000 each, the hub paying out once, at the time
\* of the first payment: the only window with money going out holds all
\* 10000 coming in.
VelocityBatch(outAmount) ==
    Renumber([i \in 1..FAN_THRESHOLD |->
                 FanTx("in", i, 1000, FanStart + (i - 1) * HOUR_MS)]
             \o <<Tx(0, Named(72, 1), Named(88, 1), outAmount, FanStart)>>,
             100)

\* Velocities 0.6994, 0.6996 and 0.7.
VelocityBatches == {VelocityBatch(o) : o \in {6994, 6996, 7000}}

Batches ==
    CycleBatches \cup FanBatches \cup MerchantBatches \cup ChainBatches
        \cup MixedBatches \cup ExampleCycleBatches \cup MemberBatches
        \cup VelocityBatches

\* R1 collects from I1..I10 and pays O1..O10, is on the cycle
\* R1 -> Y1 -> Y2 -> R1 and starts the chain R1 -> Z1 -> Z2 -> Z3 -> Z4.
RichBatch ==
    LET R == Named(82, 1)
        t0 == FanStart
    IN  Renumber(
            [i \in 1..10 |-> Tx(0, Named(73, i), R, 100, t0 + i * TimeGrain)]
            \o [i \in 1..10 |-> Tx(0, R, Named(79, i), 100, t0 + (12 + i) * TimeGrain)]
            \o << Tx(0, R, Named(89, 1), 100, t0 + 24 * TimeGrain),
                  Tx(0, Named(89, 1), Named(89, 2), 100, t0 + 25 * TimeGrain),
                  Tx(0, Named(89, 2), R, 100, t0 + 26 * TimeGrain),
                  Tx(0, R, Named(90, 1), 100, t0 + 27 * TimeGrain),
                  Tx(0, Named(90, 1), Named(90, 2), 95, t0 + 28 * TimeGrain),
                  Tx(0, Named(90, 2), Named(90, 3), 90, t0 + 29 * TimeGrain),
                  Tx(0, Named(90, 3), Named(90, 4), 85, t0 + 30 * TimeGrain) >>,
            800)

\* The merchant H1 of MerchantBatch(10, 0) is one of the ten accounts that
\* pay the collector G1.
PayingMerchantBatch ==
    MerchantBatch(10, 0)
    \o Renumber(<<Tx(0, Named(72, 1), Named(71, 1), 10, FanStart)>>
                \o [i \in 1..9 |->
                      Tx(0, Named(81, i), Named(71, 1), 10, FanStart + i * TimeGrain)],
                900)

\* if (totalTx <= 200) return 0 (scoring.ts line 106)
HIGH_VOLUME_TX == 200

\* Accounts the busy hub V1 pays.
HighVolumeOut == 60

\* V1 with totalTx transactions: payments of amt from I1..I15 in turn and
\* payments of amt (every second one amt + spread) to O1, O2, ...; with
\* onCycle, two of them are those of the cycle V1 -> Y1 -> Y2 -> V1.
HighVolumeBatch(totalTx, amt, spread, onCycle) ==
    LET V    == Named(86, 1)
        nOut == HighVolumeOut - (IF onCycle THEN 1 ELSE 0)
        nIn  == totalTx - HighVolumeOut - (IF onCycle THEN 1 ELSE 0)
    IN  Renumber(
            [i \in 1..nIn |->
                Tx(0, Named(73, ((i - 1) % 15) + 1), V, amt,
                   FanStart + (i % 3) * TimeGrain)]
            \o [i \in 1..nOut |->
                  Tx(0, V, Named(79, i), amt + (i % 2) * spread,
                     FanStart + (3 + (i % 3)) * TimeGrain)]
            \o (IF onCycle
                THEN << Tx(0, V, Named(89, 1), amt, FanStart + 6 * TimeGrain),
                        Tx(0, Named(89, 1), Named(89, 2), amt, FanStart + 7 * TimeGrain),
                        Tx(0, Named(89, 2), V, amt, FanStart + 8 * TimeGrain) >>
                ELSE <<>>),
            1000)

HighVolumeBatches ==
    {HighVolumeBatch(HIGH_VOLUME_TX + 1, 2, 0, FALSE),
     HighVolumeBatch(HIGH_VOLUME_TX, 2, 0, FALSE),
     HighVolumeBatch(HIGH_VOLUME_TX + 1, 2, 0, TRUE),
     HighVolumeBatch(HIGH_VOLUME_TX + 1, 1, 6, FALSE)}

ScoreBatches ==
    {RichBatch, PayingMerchantBatch, RichBatch \o PayingMerchantBatch}
        \cup HighVolumeBatches

-----------------------------------------------------------------------------
(* The analysis run: POST of app/api/analyze/route.ts, lines 84-93 *)

EmptyGraph == [nodeIds |-> <<>>, nodes |-> <<>>, adjacency |-> <<>>]

\* existingRingCount handed to detectSmurfing (route.ts line 89)
SmurfingRingBase(cycleResults) == Len(cycleResults)

\* The count of the cycles alone.
CycleCountOnly(cycleResults, smurfingResults) == Len(cycleResults)

\* existingRingCount handed to detectLayering (route.ts lines 90-93)
LayeringRingBase(cycleResults, smurfingResults) ==
    Len(cycleResults) + Len(smurfingResults)

CanonIdle == cseq = <<>> /\ ckey = <<>>

NoArguments ==
    [nodeCount |-> 0, cycles |-> <<>>, smurfingPatterns |-> <<>>,
     layeringPatterns |-> <<>>, suspiciousAccounts |-> <<>>,
     processingTimeSeconds |-> Num(0)]

NoResponse == [status |-> 0]

\* No score computed, no result built, first request.
AnalysisIdle ==
    /\ accountContexts = EmptyContexts
    /\ suspiciousAccounts = <<>>
    /\ arg = NoArguments
    /\ response = NoResponse
    /\ run = 1
    /\ firstResponse = NoResponse

NoValidation == [valid |-> FALSE, errors |-> <<>>, transactions |-> <<>>]

\* No text read.
CsvIdle ==
    /\ rawText = [oversize |-> FALSE, header |-> {}, lines |-> <<>>]
    /\ csvRow = 0
    /\ csvErrors = <<>>
    /\ csvTransactions = <<>>
    /\ validation = NoValidation

\* The ring counter of a later request carried on from the one before.
CarriedRingCounter(left) == left

\* "let ringCounter = 0" of detectCycles (part_000 line 90), whatever value
\* an earlier call left.
InitialRingCounter(left) == 0

Init ==
    /\ txs \in Batches
    /\ graph = EmptyGraph
    /\ pc = "build"
    /\ nodeIdx = 1
    /\ foundCanonical = {}
    /\ cycles = <<>>
    /\ ringCounter = 0
    /\ smurfing = <<>>
    /\ potentialShells = {}
    /\ startNodes = <<>>
    /\ foundChains = {}
    /\ layering = <<>>
    /\ CanonIdle
    /\ AnalysisIdle
    /\ CsvIdle
    /\ stack = <<>>

\* buildGraph(transactions), then the entry of detectCycles(graph).
BuildGraph ==
    /\ pc = "build"
    /\ graph' = buildGraph(txs)
    /\ pc' = "cycles"
    /\ nodeIdx' = 1
    /\ foundCanonical' = {}
    /\ cycles' = <<>>
    /\ ringCounter' = InitialRingCounter(ringCounter)
    /\ UNCHANGED <<txs, smurfing, potentialShells, startNodes, foundChains,
                   layering, cseq, ckey>>
    /\ UNCHANGED <<analysisVars, csvVars, stack>>

\* One iteration of the start-node loop of detectCycles; the break of
\* line 159 leaves the loop.
CycleIter ==
    /\ pc = "cycles"
    /\ nodeIdx <= Len(graph.nodeIds)
    /\ LET next == CycleFromStart(graph, graph.nodeIds[nodeIdx],
                      [found |-> foundCanonical, results |-> cycles,
                       ringCounter |-> ringCounter])
       IN  /\ foundCanonical' = next.found
           /\ cycles' = next.results
           /\ ringCounter' = next.ringCounter
           /\ nodeIdx' = IF CycleCapReached(next.results)
                         THEN Len(graph.nodeIds) + 1 ELSE nodeIdx + 1
    /\ UNCHANGED <<txs, graph, pc, smurfing, potentialShells, startNodes,
                   foundChains, layering, cseq, ckey>>
    /\ UNCHANGED <<analysisVars, csvVars, stack>>

\* detectCycles returns; detectSmurfing(graph, cycles.length) starts.
CyclesReturn ==
    /\ pc = "cycles"
    /\ nodeIdx > Len(graph.nodeIds)
    /\ pc' = "smurfing"
    /\ nodeIdx' = 1
    /\ ringCounter' = SmurfingRingBase(cycles)
    /\ smurfing' = <<>>
    /\ UNCHANGED <<txs, graph, foundCanonical, cycles, potentialShells,
                   startNodes, foundChains, layering, cseq, ckey>>
    /\ UNCHANGED <<analysisVars, csvVars, stack>>

\* An iteration of the account loop that takes the account's transactions
\* off its two lists once it has scanned them.
SmurfIterDraining ==
    /\ pc = "smurfing"
    /\ nodeIdx <= Len(graph.nodeIds)
    /\ LET next == SmurfAccount(graph.nodes[graph.nodeIds[nodeIdx]],
                      [results |-> smurfing, ringCounter |-> ringCounter])
       IN  /\ smurfing' = next.results
           /\ ringCounter' = next.ringCounter
           /\ nodeIdx' = IF SmurfCapReached(next.results)
                         THEN Len(graph.nodeIds) + 1 ELSE nodeIdx + 1
    /\ graph' = [graph EXCEPT
                    !.nodes[graph.nodeIds[nodeIdx]].in_transactions = <<>>,
                    !.nodes[graph.nodeIds[nodeIdx]].out_transactions = <<>>]
    /\ UNCHANGED <<txs, pc, foundCanonical, cycles, potentialShells,
                   startNodes, foundChains, layering, cseq, ckey>>
    /\ UNCHANGED <<analysisVars, csvVars, stack>>

\* One iteration of the account loop of detectSmurfing; the break of
\* line 873 leaves the loop.
SmurfIter ==
    /\ pc = "smurfing"
    /\ nodeIdx <= Len(graph.nodeIds)
    /\ LET next == SmurfAccount(graph.nodes[graph.nodeIds[nodeIdx]],
                      [results |-> smurfing, ringCounter |-> ringCounter])
       IN  /\ smurfing' = next.results
           /\ ringCounter' = next.ringCounter
           /\ nodeIdx' = IF SmurfCapReached(next.results)
                         THEN Len(graph.nodeIds) + 1 ELSE nodeIdx + 1
    /\ UNCHANGED <<txs, graph, pc, foundCanonical, cycles, potentialShells,
                   startNodes, foundChains, layering, cseq, ckey>>
    /\ UNCHANGED <<analysisVars, csvVars, stack>>

\* detectSmurfing returns; detectLayering(graph, cycles.length +
\* smurfingPatterns.length) runs steps 1 and 2 (with no shell it returns at
\* once: no start node is looked for).
SmurfReturn ==
    /\ pc = "smurfing"
    /\ nodeIdx > Len(graph.nodeIds)
    /\ pc' = "layering"
    /\ nodeIdx' = 1
    /\ ringCounter' = LayeringRingBase(cycles, smurfing)
    /\ potentialShells' = PotentialShells(graph)
    /\ startNodes' = IF PotentialShells(graph) = {} THEN <<>>
                     ELSE StartNodes(graph, PotentialShells(graph))
    /\ foundChains' = {}
    /\ layering' = <<>>
    /\ UNCHANGED <<txs, graph, foundCanonical, cycles, smurfing, cseq, ckey>>
    /\ UNCHANGED <<analysisVars, csvVars, stack>>

\* One iteration of the start-node loop of detectLayering; the break of
\* line 242 leaves the loop.
LayerIter ==
    /\ pc = "layering"
    /\ nodeIdx <= Len(startNodes)
    /\ LET next == LayerFromStart(graph, potentialShells, startNodes[nodeIdx],
                      [found |-> foundChains, results |-> layering,
                       ringCounter |-> ringCounter])
       IN  /\ foundChains' = next.found
           /\ layering' = next.results
           /\ ringCounter' = next.ringCounter
           /\ nodeIdx' = IF LayerCapReached(next.results)
                         THEN Len(startNodes) + 1 ELSE nodeIdx + 1
    /\ UNCHANGED <<txs, graph, pc, foundCanonical, cycles, smurfing,
                   potentialShells, startNodes, cseq, ckey>>
    /\ UNCHANGED <<analysisVars, csvVars, stack>>

\* detectLayering returns.
LayerReturn ==
    /\ pc = "layering"
    /\ nodeIdx > Len(startNodes)
    /\ pc' = "done"
    /\ UNCHANGED <<txs, graph, nodeIdx, foundCanonical, cycles, ringCounter,
                   smurfing, potentialShells, startNodes, foundChains,
                   layering, cseq, ckey>>
    /\ UNCHANGED <<analysisVars, csvVars, stack>>

Next ==
    \/ BuildGraph
    \/ CycleIter
    \/ CyclesReturn
    \/ SmurfIter
    \/ SmurfReturn
    \/ LayerIter
    \/ LayerReturn

Spec == Init /\ [][Next]_vars

\* One iteration of the start-node loop of detectLayering of
\* src/lib/layeringDetector.ts; the break of line 184 leaves the loop.
LibLayerIter ==
    /\ pc = "layering"
    /\ nodeIdx <= Len(startNodes)
    /\ LET next == LibLayerFromStart(graph, potentialShells, startNodes[nodeIdx],
                      [found |-> foundChains, results |-> layering,
                       ringCounter |-> ringCounter])
       IN  /\ foundChains' = next.found
           /\ layering' = next.results
           /\ ringCounter' = next.ringCounter
           /\ nodeIdx' = IF LayerCapReached(next.results)
                         THEN Len(startNodes) + 1 ELSE nodeIdx + 1
    /\ UNCHANGED <<txs, graph, pc, foundCanonical, cycles, smurfing,
                   potentialShells, startNodes, cseq, ckey>>
    /\ UNCHANGED <<analysisVars, csvVars, stack>>

\* The run with detectLayering of src/lib/layeringDetector.ts.
NextLib ==
    \/ BuildGraph
    \/ CycleIter
    \/ CyclesReturn
    \/ SmurfIter
    \/ SmurfReturn
    \/ LibLayerIter
    \/ LayerReturn

SpecLib == Init /\ [][NextLib]_vars

-----------------------------------------------------------------------------
(* The whole request: route.ts lines 84-123 *)

detectorVars == <<txs, graph, nodeIdx, foundCanonical, cycles, ringCounter,
                  smurfing, potentialShells, startNodes, foundChains,
                  layering, cseq, ckey>>

\* computeSuspicionScores up to line 232: the three accumulation loops.
ScoreAccumulate ==
    /\ pc = "done"
    /\ accountContexts' = AccumulateContexts(cycles, smurfing, layering)
    /\ pc' = "final"
    /\ UNCHANGED <<csvVars, stack>>
    /\ UNCHANGED <<detectorVars, suspiciousAccounts, arg, response, run,
                   firstResponse>>

\* computeSuspicionScores from line 234 on: the final loop, the sort, the
\* return.
ScoreFinal ==
    /\ pc = "final"
    /\ suspiciousAccounts' =
          SortByScore(FinalScores(accountContexts, graph,
                                  CycleParticipants(cycles)))
    /\ pc' = "scored"
    /\ UNCHANGED <<csvVars, stack>>
    /\ UNCHANGED <<detectorVars, accountContexts, arg, response, run,
                   firstResponse>>

\* Values of (endTime - startTime) / 1000.
ProcessingTimes == {Num(4), Num(1234)}

RingArguments(rings) ==
    Elements([i \in DOMAIN rings |->
                [ring_id         |-> rings[i].ring_id,
                 member_accounts |-> rings[i].member_accounts,
                 pattern_type    |-> rings[i].pattern_type,
                 risk_score      |-> Points(rings[i].risk_score)]])

AccountArguments(accounts) ==
    Elements([i \in DOMAIN accounts |->
                [account_id        |-> accounts[i].account_id,
                 suspicion_score   |-> Points(accounts[i].suspicion_score),
                 detected_patterns |-> accounts[i].detected_patterns,
                 ring_id           |-> accounts[i].ring_id]])

\* The time is taken and buildAnalysisResult is called (route.ts lines
\* 102-113) with what its body reads of its arguments.
CallBuild ==
    /\ pc = "scored"
    /\ \E seconds \in ProcessingTimes :
          arg' = [nodeCount             |-> Len(graph.nodeIds),
                  cycles                |-> RingArguments(cycles),
                  smurfingPatterns      |-> RingArguments(smurfing),
                  layeringPatterns      |-> RingArguments(layering),
                  suspiciousAccounts    |-> AccountArguments(suspiciousAccounts),
                  processingTimeSeconds |-> seconds]
    /\ pc' = "assemble"
    /\ UNCHANGED <<csvVars, stack>>
    /\ UNCHANGED <<detectorVars, accountContexts, suspiciousAccounts, response,
                   run, firstResponse>>

\* buildAnalysisResult runs; POST answers 200 with the result, or 500 with
\* the message of the Error thrown.
BuildResult ==
    /\ pc = "assemble"
    /\ response' = ResponseOf(buildAnalysisResult(arg))
    /\ pc' = "responded"
    /\ UNCHANGED <<csvVars, stack>>
    /\ UNCHANGED <<detectorVars, accountContexts, suspiciousAccounts, arg, run,
                   firstResponse>>

\* The same batch is posted once more: POST starts again from buildGraph;
\* whatever the first request left in memory is still there.
NextRequest ==
    /\ pc = "responded"
    /\ run = 1
    /\ run' = 2
    /\ firstResponse' = response
    /\ pc' = "build"
    /\ UNCHANGED <<csvVars, stack>>
    /\ UNCHANGED <<detectorVars, accountContexts, suspiciousAccounts, arg,
                   response>>

InitAnalyze ==
    /\ txs \in Batches \cup ScoreBatches
    /\ graph = EmptyGraph
    /\ pc = "build"
    /\ nodeIdx = 1
    /\ foundCanonical = {}
    /\ cycles = <<>>
    /\ ringCounter = 0
    /\ smurfing = <<>>
    /\ potentialShells = {}
    /\ startNodes = <<>>
    /\ foundChains = {}
    /\ layering = <<>>
    /\ CanonIdle
    /\ AnalysisIdle
    /\ CsvIdle
    /\ stack = <<>>

NextAnalyze ==
    \/ BuildGraph
    \/ CycleIter
    \/ CyclesReturn
    \/ SmurfIter
    \/ SmurfReturn
    \/ LayerIter
    \/ LayerReturn
    \/ ScoreAccumulate
    \/ ScoreFinal
    \/ CallBuild
    \/ BuildResult
    \/ NextRequest

SpecAnalyze == InitAnalyze /\ [][NextAnalyze]_vars

-----------------------------------------------------------------------------
(* buildAnalysisResult on its own *)

\* Values of a score handed to buildAnalysisResult: 100, 75.12, -3, 0 and
\* the values that are not finite numbers.
ScoreValues ==
    {Points(100), Num(75120), Points(-3), Points(0), NaN, PosInfinity,
     NegInfinity, Undefined}

\* "fan_inn", a label outside the vocabulary
UnknownLabel == FAN_IN \o <<110>>

LabelLists == {<<FAN_IN>>, <<FAN_IN, UnknownLabel>>}

AccountValues ==
    {[account_id |-> IdA, suspicion_score |-> v, detected_patterns |-> l,
      ring_id |-> RingId(1)] : v \in ScoreValues, l \in LabelLists}

\* Lists of one or two suspicious accounts; the second one is B.
AccountLists ==
    {<<a>> : a \in AccountValues}
    \cup {<<a, [b EXCEPT !.account_id = IdB]>> :
             a \in AccountValues,
             b \in {x \in AccountValues : x.detected_patterns = <<FAN_IN>>}}

BuildArguments ==
    {[nodeCount             |-> 2,
      cycles                |-> <<>>,
      smurfingPatterns      |-> <<[ring_id |-> RingId(1),
                                   member_accounts |-> <<IdA, IdB>>,
                                   pattern_type |-> "smurfing",
                                   risk_score |-> risk]>>,
      layeringPatterns      |-> <<>>,
      suspiciousAccounts    |-> accounts,
      processingTimeSeconds |-> seconds] :
        risk \in {Points(35), NaN, PosInfinity},
        accounts \in AccountLists,
        seconds \in {Num(1234), PosInfinity}}

InitBuild ==
    /\ arg \in BuildArguments
    /\ pc = "assemble"
    /\ txs = <<>>
    /\ graph = EmptyGraph
    /\ nodeIdx = 1
    /\ foundCanonical = {}
    /\ cycles = <<>>
    /\ ringCounter = 0
    /\ smurfing = <<>>
    /\ potentialShells = {}
    /\ startNodes = <<>>
    /\ foundChains = {}
    /\ layering = <<>>
    /\ CanonIdle
    /\ accountContexts = EmptyContexts
    /\ suspiciousAccounts = <<>>
    /\ response = NoResponse
    /\ run = 1
    /\ firstResponse = NoResponse
    /\ CsvIdle
    /\ stack = <<>>

NextBuild == BuildResult

SpecBuild == InitBuild /\ [][NextBuild]_vars

-----------------------------------------------------------------------------
(* Properties of detectCycles *)

\* detectCycles has just returned: `cycles` is its return value.
CyclesReturned == pc = "smurfing" /\ nodeIdx = 1

\* The directed graph of the batch, read off the transactions themselves.
TxEdge(a, b) ==
    \E i \in DOMAIN txs : txs[i].sender_id = a /\ txs[i].receiver_id = b

TxAccounts ==
    {txs[i].sender_id : i \in DOMAIN txs} \cup
    {txs[i].receiver_id : i \in DOMAIN txs}

\* Simple directed paths with k accounts.
RECURSIVE SimplePaths(_)
SimplePaths(k) ==
    IF k = 1 THEN {<<a>> : a \in TxAccounts}
    ELSE UNION {{Append(p, b) : b \in {c \in TxAccounts :
                                         /\ TxEdge(p[Len(p)], c)
                                         /\ \A j \in DOMAIN p : p[j] # c}} :
                p \in SimplePaths(k - 1)}

\* Simple directed cycles of 3 to 5 accounts, every rotation listed.
SimpleCycles ==
    UNION {{p \in SimplePaths(k) : TxEdge(p[k], p[1])} :
           k \in MIN_CYCLE_DEPTH..MAX_CYCLE_DEPTH}

Rotate(s, d) == [i \in 1..Len(s) |-> s[((i - 1 + d) % Len(s)) + 1]]

IsRotation(s, t) ==
    Len(s) = Len(t) /\ \E d \in 0..(Len(s) - 1) : Rotate(s, d) = t

\* C1: when fewer than 5,000 cycles are found, every simple directed cycle
\* of 3 to 5 accounts is reported exactly once: exactly one returned cycle
\* has member_accounts equal to a rotation of it.
C1_EverySimpleCycleOnce ==
    (CyclesReturned /\ ~CycleCapReached(cycles)) =>
        \A c \in SimpleCycles :
            Cardinality({i \in DOMAIN cycles :
                           IsRotation(cycles[i].member_accounts, c)}) = 1

\* C2: every returned cycle is a simple cycle of the graph: 3 to 5 pairwise
\* distinct accounts, each sending to the next and the last to the first; a
\* self-loop never puts an account twice into member_accounts.
C2_ReportedCyclesSimple ==
    CyclesReturned =>
        \A i \in DOMAIN cycles :
            LET m == cycles[i].member_accounts
            IN  /\ Len(m) \in MIN_CYCLE_DEPTH..MAX_CYCLE_DEPTH
                /\ cycles[i].cycle_length = Len(m)
                /\ \A j, k \in DOMAIN m : j # k => m[j] # m[k]
                /\ \A j \in DOMAIN m : TxEdge(m[j], m[(j % Len(m)) + 1])

\* Longest batch whose every reordering is tried.
MaxPermLen == 5

\* The batch in other orders: every permutation of a short batch; the
\* opposite order and a half turn of a long one.
Reorderings(batch) ==
    IF Len(batch) <= MaxPermLen
    THEN {[i \in 1..Len(batch) |-> batch[p[i]]] :
             p \in Permutations(1..Len(batch))}
    ELSE {Reverse(batch), Rotate(batch, Len(batch) \div 2)}

CycleKeys(results) ==
    {canonicalizeCycle(results[i].member_accounts) : i \in DOMAIN results}

-----------------------------------------------------------------------------
(* Properties of the ring ids of one run *)

\* The patterns returned so far, in emission order.
AllPatterns == cycles \o smurfing \o layering

\* The number written in a string of decimal digits; -1 for anything else.
RECURSIVE ParseDecimal(_)
ParseDecimal(digits) ==
    IF Len(digits) = 0 THEN -1
    ELSE LET d == digits[Len(digits)] - 48
         IN  IF d < 0 \/ d > 9 THEN -1
             ELSE IF Len(digits) = 1 THEN d
             ELSE LET rest == ParseDecimal(SubSeq(digits, 1, Len(digits) - 1))
                  IN  IF rest < 0 THEN -1 ELSE 10 * rest + d

\* The counter embedded in a ring id "RING_<digits>"; -1 for another shape.
RingCounterOf(id) ==
    IF Len(id) > 5 /\ SubSeq(id, 1, 5) = <<82, 73, 78, 71, 95>>
    THEN ParseDecimal(SubSeq(id, 6, Len(id)))
    ELSE -1

\* The scan of detectSmurfing finds 10 or more counterparties for the account.
FanFlagged(nodeData) ==
    LET scan == WindowScan(nodeData,
                    getTimeWindows(nodeData.in_transactions \o nodeData.out_transactions))
    IN  scan.bestFanIn >= FAN_THRESHOLD \/ scan.bestFanOut >= FAN_THRESHOLD

\* C5: the ring ids of one run are pairwise distinct across the three
\* detectors and their counters are exactly 1..N in emission order (cycles,
\* then smurfing, then layering); a discarded candidate uses no counter.
C5_RingIdsSequential ==
    /\ \A i \in DOMAIN AllPatterns : RingCounterOf(AllPatterns[i].ring_id) = i
    /\ \A i, j \in DOMAIN AllPatterns :
          i # j => AllPatterns[i].ring_id # AllPatterns[j].ring_id

\* A finished run that returned patterns of all three kinds although a
\* fan hub was suppressed, a cycle was found again from another start node
\* and a shell path failed its gates.
C5_Witness ==
    /\ pc = "done"
    /\ Len(cycles) >= 2 /\ Len(smurfing) >= 1 /\ Len(layering) >= 2
    /\ \E a \in DOMAIN graph.nodes :
          FanFlagged(graph.nodes[a]) /\ SmurfSuppressed(graph.nodes[a])
    /\ Cardinality(SimpleCycles) > Len(cycles)
    /\ Named(78, 0) \in Range(startNodes)
    /\ \A i \in DOMAIN layering : layering[i].chain[1] # Named(78, 0)

-----------------------------------------------------------------------------
(* Properties of detectSmurfing *)

\* detectSmurfing has returned: `smurfing` is its return value.
SmurfingReturned == pc \in {"layering", "done"}

\* The distinct senders paying account a within the 72 hours that start
\* with payment i, read off the batch.
SendersFrom(a, i) ==
    {txs[j].sender_id : j \in {k \in DOMAIN txs :
        /\ txs[k].receiver_id = a
        /\ txs[k].timestamp_ms >= txs[i].timestamp_ms
        /\ txs[k].timestamp_ms <= txs[i].timestamp_ms + SEVENTY_TWO_HOURS_MS}}

ReceiversFrom(a, i) ==
    {txs[j].receiver_id : j \in {k \in DOMAIN txs :
        /\ txs[k].sender_id = a
        /\ txs[k].timestamp_ms >= txs[i].timestamp_ms
        /\ txs[k].timestamp_ms <= txs[i].timestamp_ms + SEVENTY_TWO_HOURS_MS}}

\* Account a has 10 or more distinct senders (receivers) within one
\* interval of 72 hours; such an interval can be taken to start with one
\* of the account's payments.
TrueFanIn(a) ==
    \E i \in DOMAIN txs :
        txs[i].receiver_id = a /\ Cardinality(SendersFrom(a, i)) >= FAN_THRESHOLD

TrueFanOut(a) ==
    \E i \in DOMAIN txs :
        txs[i].sender_id = a /\ Cardinality(ReceiversFrom(a, i)) >= FAN_THRESHOLD

HubDirections(a) ==
    {smurfing[k].direction : k \in {n \in DOMAIN smurfing :
                                       smurfing[n].hub_account = a}}

\* C8: when the cap of 500 is not reached, every account that is neither
\* merchant-like nor payroll-like and has 10 or more distinct senders
\* (receivers) within one interval of 72 hours is returned as a hub with
\* direction fan_in or both (fan_out or both): the hour buckets of the
\* window starts never make the detector miss it.
C8_EveryFanHubReported ==
    (SmurfingReturned /\ ~SmurfCapReached(smurfing)) =>
        \A a \in DOMAIN graph.nodes :
            (~checkMerchantLike(graph.nodes[a]) /\ ~checkPayrollLike(graph.nodes[a])) =>
                /\ TrueFanIn(a) => HubDirections(a) \cap {"fan_in", "both"} # {}
                /\ TrueFanOut(a) => HubDirections(a) \cap {"fan_out", "both"} # {}

Hubs == {smurfing[k].hub_account : k \in DOMAIN smurfing}

InAmountsOf(a) == {txs[i].amount : i \in {k \in DOMAIN txs : txs[k].receiver_id = a}}

InCount(a) == Cardinality({i \in DOMAIN txs : txs[i].receiver_id = a})

OutCount(a) == Cardinality({i \in DOMAIN txs : txs[i].sender_id = a})

\* Incoming amounts within 10 percent of each other.
NearIdenticalIn(a) ==
    \A x, y \in InAmountsOf(a) : 10 * x <= 11 * y

\* An account with MerchantTxs or more incoming payments of near-identical
\* amount and more than three times as many incoming as outgoing ones.
BigMerchant(a) ==
    /\ InCount(a) >= MerchantTxs
    /\ NearIdenticalIn(a)
    /\ InCount(a) > 3 * OutCount(a)

NoSuppressedHub ==
    \A a \in Hubs :
        ~checkMerchantLike(graph.nodes[a]) /\ ~checkPayrollLike(graph.nodes[a])

\* C9 as stated: no returned hub is merchant-like or payroll-like, and an
\* account with 250 incoming payments of near-identical amount and in-degree
\* above three times its out-degree is never a hub.
C9_NoMerchantHub ==
    SmurfingReturned =>
        /\ NoSuppressedHub
        /\ \A a \in DOMAIN graph.nodes : BigMerchant(a) => a \notin Hubs

\* C9, amended: no returned hub is merchant-like or payroll-like, and an
\* account with 250 incoming payments of near-identical amount, not all of
\* amount zero, and in-degree above three times its out-degree is never a
\* hub.
C9_NoPositiveMerchantHub ==
    SmurfingReturned =>
        /\ NoSuppressedHub
        /\ \A a \in DOMAIN graph.nodes :
              (BigMerchant(a) /\ InAmountsOf(a) # {0}) => a \notin Hubs

\* detectSmurfing has returned without the merchant, whose payments of 10
\* and 11 come from 10 or more senders within 72 hours.
C9_Witness ==
    /\ SmurfingReturned
    /\ \E a \in DOMAIN graph.nodes :
          /\ BigMerchant(a)
          /\ InAmountsOf(a) = {10, 11}
          /\ TrueFanIn(a)
          /\ FanFlagged(graph.nodes[a])
          /\ a \notin Hubs

-----------------------------------------------------------------------------
(* Properties of detectLayering *)

\* A shell account: 2 or 3 transactions in all, read off the batch.
IsShellAccount(a) ==
    InCount(a) + OutCount(a) \in SHELL_MIN_TX..SHELL_MAX_TX

\* C10: in every returned layering pattern at least 70 percent of the
\* intermediate accounts (all of the chain but its first and last account)
\* are shell accounts; the last account never counts as one.
C10_ShellShareOfIntermediates ==
    \A k \in DOMAIN layering :
        LET chain  == layering[k].chain
            inter  == 2..(Len(chain) - 1)
            shells == {i \in inter : IsShellAccount(chain[i])}
        IN  /\ inter # {}
            /\ 10 * Cardinality(shells) >= 7 * Cardinality(inter)

\* C11: every returned layering pattern has 3 to 8 hops, one hop less than
\* it has chain accounts, member_accounts equal to chain, pairwise distinct
\* chain accounts, and a first account that is not a shell and pays at
\* least one shell.
C11_LayeringPatternShape ==
    \A k \in DOMAIN layering :
        LET p == layering[k]
        IN  /\ p.hop_count \in MIN_HOP_COUNT..MAX_HOPS
            /\ p.hop_count = Len(p.chain) - 1
            /\ p.member_accounts = p.chain
            /\ \A i, j \in DOMAIN p.chain : i # j => p.chain[i] # p.chain[j]
            /\ ~IsShellAccount(p.chain[1])
            /\ \E b \in TxAccounts : TxEdge(p.chain[1], b) /\ IsShellAccount(b)


\* The batch with every amount and every timestamp made equal: the same
\* edges in the same order, and both evidence flags true on every cycle.
Levelled(batch) ==
    [i \in DOMAIN batch |-> [batch[i] EXCEPT !.amount = 1, !.timestamp_ms = 0]]

Members(results) == [i \in DOMAIN results |-> results[i].member_accounts]

LayeringEvidence(chain) ==
    checkTemporalContinuity(chain, graph) \/ checkAmountPreservation(chain, graph)

\* The paths with k accounts that pass every test of detectLayering before
\* the evidence test: from a start node, with at least 70% shells.
QualifyingPaths(k) ==
    {p \in SimplePaths(k) :
        /\ p[1] \in Range(startNodes)
        /\ ShellRatioMet(Cardinality({i \in 2..k : p[i] \in potentialShells}),
                         k - 2)}

\* C12: every returned layering pattern passes the temporal continuity or
\* the amount preservation check, and the ring ids of the layering patterns
\* are consecutive from the count of cycles and smurfing patterns on, so a
\* path failing both checks takes none; the list of cycles detectCycles
\* returns is the one it returns when every evidence flag is true.
C12_LayeringGatedCyclesNot ==
    /\ \A k \in DOMAIN layering :
          /\ LayeringEvidence(layering[k].chain)
          /\ layering[k].ring_id = RingId(LayeringRingBase(cycles, smurfing) + k)
    /\ pc = "done" =>
          ringCounter = LayeringRingBase(cycles, smurfing) + Len(layering)
    /\ CyclesReturned =>
          LET lev == detectCycles(buildGraph(Levelled(txs)))
          IN  /\ Members(lev) = Members(cycles)
              /\ \A k \in DOMAIN lev :
                    lev[k].temporal_proximity /\ lev[k].amount_similarity

\* The run returned a cycle with both flags false and a layering pattern,
\* and left out a qualifying 3-hop path that fails both checks.
C12_Witness ==
    /\ pc = "done"
    /\ \E k \in DOMAIN cycles :
          ~cycles[k].temporal_proximity /\ ~cycles[k].amount_similarity
    /\ layering # <<>>
    /\ \E p \in QualifyingPaths(MIN_HOP_COUNT + 1) :
          /\ ~LayeringEvidence(p)
          /\ \A k \in DOMAIN layering : layering[k].chain # p


-----------------------------------------------------------------------------
(* Properties of computeSuspicionScores *)

\* accountContexts holds the contexts of this request's rings.
ContextsBuilt == pc \in {"final", "scored", "assemble", "responded"}

\* suspiciousAccounts holds the list returned for this request.
ScoresReturned == pc \in {"scored", "assemble", "responded"}

\* The rings of one detector's list that have account a as a member.
RingsOf(a, rings) ==
    {k \in DOMAIN rings : a \in Range(rings[k].member_accounts)}

RingMembers ==
    {a \in TxAccounts :
        RingsOf(a, cycles) \cup RingsOf(a, smurfing) \cup RingsOf(a, layering) # {}}

\* The largest contribution among the rings of one family that hold a, 0
\* when none does.
BestOf(a, rings, Contribution(_)) ==
    IF RingsOf(a, rings) = {} THEN 0
    ELSE SetMax({Contribution(rings[k]) : k \in RingsOf(a, rings)})

BestSum(a) ==
    BestOf(a, cycles, computeCycleContribution)
    + BestOf(a, smurfing, computeSmurfingContribution)
    + BestOf(a, layering, computeLayeringContribution)

\* C13: the accounts with a context are the members of the rings, and the
\* score of each before the deductions is the sum, over the three families,
\* of the largest contribution of a ring of that family holding the account.
C13_SumOfFamilyMaxima ==
    ContextsBuilt =>
        /\ DOMAIN accountContexts.ctx = RingMembers
        /\ Range(accountContexts.order) = RingMembers
        /\ \A a \in RingMembers :
              FamilyMaxSum(accountContexts.ctx[a]) = BestSum(a)

\* An account of a cycle and of a smurfing ring that is in two layering
\* rings of different contributions.
C13_Witness ==
    /\ ContextsBuilt
    /\ \E a \in DOMAIN accountContexts.ctx :
          LET ctx == accountContexts.ctx[a]
          IN  /\ Len(ctx.cycleScores) > 0
              /\ Len(ctx.smurfingScores) > 0
              /\ Len(ctx.layeringScores) >= 2
              /\ Cardinality(Range(ctx.layeringScores)) >= 2


\* rawScore of account a after line 259: all deductions taken off, not yet
\* clamped.
ScoreAfterDeductions(a) ==
    RawScore(a, accountContexts.ctx[a], graph, CycleParticipants(cycles))

EntriesOf(a, accounts) ==
    {i \in DOMAIN accounts : accounts[i].account_id = a}

\* C14: the returned list holds one entry for every ring member whose score
\* after the deductions and before the clamp is above 0, and no other entry.
C14_EntryIffPositive ==
    ScoresReturned =>
        /\ \A i \in DOMAIN suspiciousAccounts :
              suspiciousAccounts[i].account_id \in RingMembers
        /\ \A a \in RingMembers :
              Cardinality(EntriesOf(a, suspiciousAccounts))
                 = IF ScoreAfterDeductions(a) > 0 THEN 1 ELSE 0
        /\ \A a \in TxAccounts \ RingMembers :
              EntriesOf(a, suspiciousAccounts) = {}

\* A ring member left out with a score below 0 after the deductions, next
\* to members that are listed and an account in no ring.
C14_Witness ==
    /\ ScoresReturned
    /\ \E a \in RingMembers :
          ScoreAfterDeductions(a) < 0 /\ EntriesOf(a, suspiciousAccounts) = {}
    /\ suspiciousAccounts # <<>>
    /\ TxAccounts \ RingMembers # {}


\* The value is a finite number from 0 to 100.
ZeroToHundred(x) == IsFiniteNumber(x) /\ x.val >= 0 /\ x.val <= 100 * 1000

ScoresOf(rings) == {rings[k].risk_score : k \in DOMAIN rings}

\* C15: every risk_score of a cycle, a smurfing pattern and a layering
\* pattern and every suspicion_score is from 0 to 100, in the lists the
\* functions return and in the result sent.
C15_ScoresWithinBounds ==
    /\ \A x \in ScoresOf(cycles) \cup ScoresOf(smurfing) \cup ScoresOf(layering) :
          0 <= x /\ x <= 100
    /\ ScoresReturned =>
          \A i \in DOMAIN suspiciousAccounts :
              /\ 0 <= suspiciousAccounts[i].suspicion_score
              /\ suspiciousAccounts[i].suspicion_score <= 100
    /\ (pc = "responded" /\ response.status = 200) =>
          /\ \A i \in DOMAIN response.body.suspicious_accounts :
                ZeroToHundred(response.body.suspicious_accounts[i].suspicion_score)
          /\ \A k \in DOMAIN response.body.fraud_rings :
                ZeroToHundred(response.body.fraud_rings[k].risk_score)

\* The result sent lists an account whose three family maxima add up to
\* more than 100 with the score 100, and leaves out a ring member whose
\* score is below 0 after the deductions.
C15_Witness ==
    /\ pc = "responded"
    /\ response.status = 200
    /\ \E i \in DOMAIN response.body.suspicious_accounts :
          LET sa == response.body.suspicious_accounts[i]
          IN  /\ BestSum(sa.account_id) > 100
              /\ sa.suspicion_score = Points(100)
    /\ \E a \in RingMembers :
          /\ ScoreAfterDeductions(a) < 0
          /\ \A i \in DOMAIN response.body.suspicious_accounts :
                response.body.suspicious_accounts[i].account_id # a


\* The member lists of a detector's rings, one after the other.
RECURSIVE MembersFrom(_, _)
MembersFrom(rings, k) ==
    IF k > Len(rings) THEN <<>>
    ELSE rings[k].member_accounts \o MembersFrom(rings, k + 1)

\* The accounts in the order in which a scan of the cycles, then of the
\* smurfing patterns, then of the layering patterns meets them first.
FirstSeenOrder ==
    Distinct(MembersFrom(cycles, 1) \o MembersFrom(smurfing, 1)
                \o MembersFrom(layering, 1))

\* For every entry of the list, the place of its account in FirstSeenOrder.
FirstSeenRanks(accounts) ==
    LET order == FirstSeenOrder
    IN  Elements([i \in DOMAIN accounts |->
                    CHOOSE k \in DOMAIN order : order[k] = accounts[i].account_id])

\* C16: the list computeSuspicionScores returns is in non-increasing order
\* of suspicion_score, accounts of equal score in the order in which the
\* scan of cycles, smurfing patterns and layering patterns met them first;
\* the result sent lists the same accounts in the same order with the same
\* scores.
C16_SortedDescendingStable ==
    /\ ScoresReturned =>
          LET rank == FirstSeenRanks(suspiciousAccounts)
          IN  \A i \in 2..Len(suspiciousAccounts) :
                 LET x == suspiciousAccounts[i - 1]
                     y == suspiciousAccounts[i]
                 IN  /\ x.suspicion_score >= y.suspicion_score
                     /\ x.suspicion_score = y.suspicion_score =>
                           rank[i - 1] < rank[i]
    /\ (pc = "responded" /\ response.status = 200) =>
          LET out == response.body.suspicious_accounts
          IN  /\ Len(out) = Len(suspiciousAccounts)
              /\ \A i \in DOMAIN out :
                    /\ out[i].account_id = suspiciousAccounts[i].account_id
                    /\ out[i].suspicion_score
                          = Points(suspiciousAccounts[i].suspicion_score)
              /\ \A i \in 2..Len(out) :
                    ~NumGreater(out[i].suspicion_score, out[i - 1].suspicion_score)

\* The result sent lists an account before one that the scan met earlier,
\* and two neighbours of equal score, one on a cycle and one on none.
C16_Witness ==
    /\ pc = "responded"
    /\ response.status = 200
    /\ LET out  == response.body.suspicious_accounts
           rank == FirstSeenRanks(out)
       IN  /\ \E i \in 2..Len(out) : rank[i - 1] > rank[i]
           /\ \E i \in 2..Len(out) :
                 /\ out[i - 1].suspicion_score = out[i].suspicion_score
                 /\ RingsOf(out[i - 1].account_id, cycles) # {}
                 /\ RingsOf(out[i].account_id, cycles) = {}


\* "cycle_length_" followed by the digit of n, for n of 3..5
CycleLengthLabel(n) == CYCLE_LENGTH_ \o <<48 + n>>

\* The rings of a family that let a member carry the label.
LabelGrounds(label) ==
    IF label \in {CycleLengthLabel(n) : n \in 3..5}
    THEN {r \in Range(cycles) : CycleLengthLabel(r.cycle_length) = label}
    ELSE IF label = FAN_IN
    THEN {r \in Range(smurfing) : r.direction \in {"fan_in", "both"}}
    ELSE IF label = FAN_OUT
    THEN {r \in Range(smurfing) : r.direction \in {"fan_out", "both"}}
    ELSE IF label = HIGH_VELOCITY
    THEN Range(smurfing)
    ELSE IF label = LAYERED_SHELL
    THEN Range(layering)
    ELSE {}

PatternsInOrder(sa) ==
    /\ Len(sa.detected_patterns) >= 1
    /\ \A i \in 2..Len(sa.detected_patterns) :
          StrLess(sa.detected_patterns[i - 1], sa.detected_patterns[i])
    /\ \A i \in DOMAIN sa.detected_patterns :
          \E r \in LabelGrounds(sa.detected_patterns[i]) :
              sa.account_id \in Range(r.member_accounts)

\* C17: the detected_patterns of every suspicious account are not empty and
\* strictly ascending in the order of their code units, hence without a
\* duplicate, and every label is one of the seven of the vocabulary and
\* comes with a ring of its family that holds the account; the result sent
\* carries the same labels.
C17_PatternLabels ==
    /\ ScoresReturned =>
          \A i \in DOMAIN suspiciousAccounts : PatternsInOrder(suspiciousAccounts[i])
    /\ (pc = "responded" /\ response.status = 200) =>
          \A i \in DOMAIN response.body.suspicious_accounts :
              response.body.suspicious_accounts[i].detected_patterns
                 = suspiciousAccounts[i].detected_patterns

\* A listed account whose labels were added in another order than the
\* sorted one, and a listed account with labels of all three families.
C17_Witness ==
    /\ ScoresReturned
    /\ \E i \in DOMAIN suspiciousAccounts :
          accountContexts.ctx[suspiciousAccounts[i].account_id].patterns
             # suspiciousAccounts[i].detected_patterns
    /\ \E i \in DOMAIN suspiciousAccounts :
          Len(suspiciousAccounts[i].detected_patterns) >= 4


\* One entry per side of a transaction: a payment of a to itself counts in
\* in_degree and in out_degree.
SidesOf(a) ==
    SelectSeq(txs, LAMBDA t : t.receiver_id = a)
        \o SelectSeq(txs, LAMBDA t : t.sender_id = a)

\* More than 200 transactions, on no detected cycle, and a coefficient of
\* variation of all amounts below 0.3: variance / mean^2 < 9 / 100.
HighVolumeSteady(a) ==
    LET amounts == Amounts(SidesOf(a))
        n       == Len(amounts)
        total   == Sum(amounts)
    IN  /\ n > 200
        /\ RingsOf(a, cycles) = {}
        /\ total > 0
        /\ 100 * (n * Sum(Squares(amounts)) - total * total) < 9 * total * total

ProfileDeductions(a) ==
    LET fp == buildFalsePositiveProfile(graph.nodes[a])
    IN  (IF fp.is_merchant_like THEN 30 ELSE 0)
        + (IF fp.is_payroll_like THEN 30 ELSE 0)
        + (IF fp.is_stable_recurring THEN 15 ELSE 0)

ListedScore(a) ==
    LET at == EntriesOf(a, suspiciousAccounts)
    IN  IF at = {} THEN 0
        ELSE suspiciousAccounts[CHOOSE i \in at : TRUE].suspicion_score

\* C18: for every ring member the score after the deductions is the sum of
\* the family maxima less 30, 30 and 15 for the merchant, payroll and
\* stable-recurring profiles and less 40 exactly when the account has more
\* than 200 transactions, is on no detected cycle and has a coefficient of
\* variation of its amounts below 0.3; the listed score is that score
\* clamped to 0..100, an account of score 0 not being listed.
C18_HighVolumeDeduction ==
    /\ ContextsBuilt =>
          \A a \in RingMembers :
              ScoreAfterDeductions(a)
                 = BestSum(a) - ProfileDeductions(a)
                      - (IF HighVolumeSteady(a) THEN 40 ELSE 0)
    /\ ScoresReturned =>
          \A a \in RingMembers :
              ListedScore(a)
                 = Min2(100, Max2(0, BestSum(a) - ProfileDeductions(a)
                                       - (IF HighVolumeSteady(a) THEN 40 ELSE 0)))

\* A hub with more than 200 steady payments and on no cycle is listed with
\* its smurfing contribution less 40.
C18_Witness ==
    /\ ScoresReturned
    /\ \E a \in RingMembers :
          /\ HighVolumeSteady(a)
          /\ ProfileDeductions(a) = 0
          /\ ListedScore(a) = BestSum(a) - 40
          /\ ListedScore(a) > 0


-----------------------------------------------------------------------------
(* Properties of the whole request *)

\* C19: the response to the second request with the same batch has the
\* status, the suspicious_accounts, the fraud_rings and the counts of the
\* summary of the response to the first one; processing_time_seconds alone
\* may differ.
C19_SecondRunIdentical ==
    (pc = "responded" /\ run = 2) =>
        /\ response.status = 200
        /\ firstResponse.status = 200
        /\ response.body.suspicious_accounts = firstResponse.body.suspicious_accounts
        /\ response.body.fraud_rings = firstResponse.body.fraud_rings
        /\ [response.body.summary EXCEPT !.processing_time_seconds = Num(0)]
              = [firstResponse.body.summary EXCEPT !.processing_time_seconds = Num(0)]

\* The second response is there, with rings of all three detectors and
\* another processing time than the first.
C19_Witness ==
    /\ pc = "responded"
    /\ run = 2
    /\ cycles # <<>> /\ smurfing # <<>> /\ layering # <<>>
    /\ response.body.suspicious_accounts # <<>>
    /\ response.body.summary.processing_time_seconds
          # firstResponse.body.summary.processing_time_seconds


\* The result has a numeric field that is not a finite number, a label
\* outside the vocabulary, or an account with a higher score than the one
\* before it.
Malformed(result) ==
    \/ \E i \in DOMAIN result.suspicious_accounts :
          \/ ~IsFiniteNumber(result.suspicious_accounts[i].suspicion_score)
          \/ \E l \in Range(result.suspicious_accounts[i].detected_patterns) :
                l \notin {CycleLengthLabel(3), CycleLengthLabel(4),
                          CycleLengthLabel(5), FAN_IN, FAN_OUT, HIGH_VELOCITY,
                          LAYERED_SHELL}
    \/ \E i \in 2..Len(result.suspicious_accounts) :
          ~IsFiniteNumber(result.suspicious_accounts[i].suspicion_score)
          \/ ~IsFiniteNumber(result.suspicious_accounts[i - 1].suspicion_score)
          \/ result.suspicious_accounts[i].suspicion_score.val
                > result.suspicious_accounts[i - 1].suspicion_score.val
    \/ \E k \in DOMAIN result.fraud_rings :
          ~IsFiniteNumber(result.fraud_rings[k].risk_score)
    \/ ~IsFiniteNumber(result.summary.processing_time_seconds)

\* C20: when the result buildAnalysisResult has assembled is malformed, the
\* call throws and the request is answered with 500 instead of the result;
\* a request on a batch is always answered with 200.
C20_AbortsOnMalformed ==
    pc = "responded" =>
        /\ Malformed(AssembledResult(arg)) => response.status = 500
        /\ txs # <<>> => response.status = 200

-----------------------------------------------------------------------------
(* Runs on large batches: the result caps *)

\* Accounts of the complete graph.
CapClique == 10

\* Senders (and as many receivers) of the regular fan graph.
CapPairs == 251

\* K1..Kn, every account paying every other one once.
CliqueBatch(n) ==
    Renumber([k \in 1..(n * (n - 1)) |->
                 LET i  == ((k - 1) \div (n - 1)) + 1
                     j0 == ((k - 1) % (n - 1)) + 1
                     j  == IF j0 >= i THEN j0 + 1 ELSE j0
                 IN  Tx(0, Named(75, i), Named(75, j), 100, (k % 24) * HOUR_MS)],
             1000)

\* L0..L(m-1) each paying FAN_THRESHOLD of R0..R(m-1) once, so that every
\* account has FAN_THRESHOLD counterparties within a few hours.
RegularFanBatch(m) ==
    Renumber([k \in 1..(FAN_THRESHOLD * m) |->
                 LET i == (k - 1) \div FAN_THRESHOLD
                     j == (k - 1) % FAN_THRESHOLD
                 IN  Tx(0, Named(76, i), Named(82, (i + j) % m), 100 + j,
                        FanStart + j * HOUR_MS)],
             1000)

CapBatches ==
    {CliqueBatch(CapClique) \o ChainBatch(FALSE, FALSE, TRUE, HOUR_MS, FALSE),
     RegularFanBatch(CapPairs) \o ChainBatch(FALSE, FALSE, TRUE, HOUR_MS, FALSE)}

InitCap ==
    /\ txs \in CapBatches
    /\ graph = EmptyGraph
    /\ pc = "build"
    /\ nodeIdx = 1
    /\ foundCanonical = {}
    /\ cycles = <<>>
    /\ ringCounter = 0
    /\ smurfing = <<>>
    /\ potentialShells = {}
    /\ startNodes = <<>>
    /\ foundChains = {}
    /\ layering = <<>>
    /\ CanonIdle
    /\ AnalysisIdle
    /\ CsvIdle
    /\ stack = <<>>

SpecCap == InitCap /\ [][Next]_vars

\* C6: detectCycles never returns more than 5,000 cycles.
C6_AtMostCycleCap ==
    CyclesReturned => Len(cycles) <= CYCLE_CAP

\* C7: detectSmurfing never returns more than 500 patterns.
C7_AtMostSmurfCap ==
    (pc \in {"layering", "done"}) => Len(smurfing) <= SMURF_CAP

-----------------------------------------------------------------------------
(* canonicalizeCycle on its own: every sequence of 3 to 5 ids *)

\* Number of ids the arguments are drawn from.
CanonIdCount == 4

\* "A", "B", "AB", "A|B", "BA": prefixes of each other and ids holding the
\* separator.
CanonIdList == << <<65>>, <<66>>, <<65, 66>>, <<65, BAR, 66>>, <<66, 65>> >>

CanonIds == {CanonIdList[i] : i \in 1..Min2(CanonIdCount, Len(CanonIdList))}

CanonArguments ==
    UNION {[1..n -> CanonIds] : n \in MIN_CYCLE_DEPTH..MAX_CYCLE_DEPTH}

InitCanon ==
    /\ cseq \in CanonArguments
    /\ ckey = <<>>
    /\ pc = "canon_in"
    /\ txs = <<>>
    /\ graph = EmptyGraph
    /\ nodeIdx = 1
    /\ foundCanonical = {}
    /\ cycles = <<>>
    /\ ringCounter = 0
    /\ smurfing = <<>>
    /\ potentialShells = {}
    /\ startNodes = <<>>
    /\ foundChains = {}
    /\ layering = <<>>
    /\ AnalysisIdle
    /\ CsvIdle
    /\ stack = <<>>

\* const canonical = canonicalizeCycle(cycle)
Canonicalize ==
    /\ pc = "canon_in"
    /\ ckey' = canonicalizeCycle(cseq)
    /\ pc' = "canon_out"
    /\ UNCHANGED <<txs, graph, nodeIdx, foundCanonical, cycles, ringCounter,
                   smurfing, potentialShells, startNodes, foundChains,
                   layering, cseq>>
    /\ UNCHANGED <<analysisVars, csvVars, stack>>

NextCanon == Canonicalize

SpecCanon == InitCanon /\ [][NextCanon]_vars

\* Positions of s holding its smallest id.
SmallestAt(s) ==
    {i \in DOMAIN s : \A j \in DOMAIN s : ~StrLess(s[j], s[i])}

\* C3 as stated: for any sequence of 3 to 5 account ids, every rotation
\* gets the key the sequence gets.
C3_AnySequenceRotationInvariant ==
    pc = "canon_out" =>
        \A d \in 0..(Len(cseq) - 1) : canonicalizeCycle(Rotate(cseq, d)) = ckey

\* C3, amended: for any sequence of 3 to 5 account ids whose smallest id
\* occurs once (so for any sequence of pairwise distinct ids), every
\* rotation gets the key the sequence gets, and that key is the join of the
\* rotation that starts at the smallest id.
C3_RotationInvariant ==
    (pc = "canon_out" /\ Cardinality(SmallestAt(cseq)) = 1) =>
        /\ \A d \in 0..(Len(cseq) - 1) :
              canonicalizeCycle(Rotate(cseq, d)) = ckey
        /\ \A i \in SmallestAt(cseq) : ckey = JoinBar(Rotate(cseq, i - 1))

\* A key has been computed for a sequence of distinct ids that does not
\* start at its smallest id.
C3_Witness ==
    /\ pc = "canon_out"
    /\ Cardinality(Range(cseq)) = Len(cseq)
    /\ 1 \notin SmallestAt(cseq)
    /\ Len(cseq) = MAX_CYCLE_DEPTH - 1

-----------------------------------------------------------------------------
(* Properties of the returned cycles *)

\* The timestamps of all transactions of the batch on the edges of a cycle.
CycleTimes(members) ==
    {txs[i].timestamp_ms :
        i \in {k \in DOMAIN txs :
                  \E j \in DOMAIN members :
                      /\ txs[k].sender_id = members[j]
                      /\ txs[k].receiver_id = members[(j % Len(members)) + 1]}}

\* C23: a cycle's risk_score is 40 for length 3 and 30 otherwise, plus 10 if
\* temporal_proximity, plus 10 if amount_similarity; temporal_proximity holds
\* iff the earliest and the latest transaction on the cycle's edges are at
\* most 72 hours apart; the batch A -> B, B -> C, C -> A of equal amounts at
\* t0, t0 + 1h, t0 + 2h gives exactly one cycle, over {A, B, C}, of length 3,
\* both flags true and risk_score 60.
C23_CycleRiskScore ==
    CyclesReturned =>
        /\ \A i \in DOMAIN cycles :
               LET c     == cycles[i]
                   times == CycleTimes(c.member_accounts)
               IN  /\ c.risk_score =
                          (IF c.cycle_length = 3 THEN 40 ELSE 30)
                              + (IF c.temporal_proximity THEN 10 ELSE 0)
                              + (IF c.amount_similarity THEN 10 ELSE 0)
                   /\ c.temporal_proximity <=>
                          SetMax(times) - SetMin(times) <= 72 * HOUR_MS
        /\ txs = ExampleCycleBatch =>
               /\ Len(cycles) = 1
               /\ Range(cycles[1].member_accounts) = {IdA, IdB, IdC}
               /\ Len(cycles[1].member_accounts) = 3
               /\ cycles[1].cycle_length = 3
               /\ cycles[1].temporal_proximity
               /\ cycles[1].amount_similarity
               /\ cycles[1].risk_score = 60

\* The example's cycle has been returned.
C23_Witness ==
    /\ CyclesReturned
    /\ txs = ExampleCycleBatch
    /\ Len(cycles) = 1
    /\ cycles[1].risk_score = 60

-----------------------------------------------------------------------------
(* The contributions against the methodology table of README.md *)

\* The contribution the table gives a smurfing ring: +30 for fan-in, +30 for
\* fan-out, +10 for high velocity.
TableSmurfing(pattern) ==
    (IF pattern.direction \in {"fan_in", "both"} THEN 30 ELSE 0)
    + (IF pattern.direction \in {"fan_out", "both"} THEN 30 ELSE 0)
    + (IF HighVelocity(pattern) THEN 10 ELSE 0)

\* The contributions of the rings of one list that hold a.
ContributionsTo(a, rings, Contribution(_)) ==
    {Contribution(rings[k]) : k \in RingsOf(a, rings)}

\* C24: the contributions to an account's score are those of the README's
\* table: +35 for a cycle, +30 for fan-in, +30 for fan-out, +10 for high
\* velocity, +25 for a layered shell chain; an account whose only finding is
\* one cycle has a score of 35 before the deductions.
C24_ReadmeContributions ==
    ContextsBuilt =>
        \A a \in DOMAIN accountContexts.ctx :
            LET ctx == accountContexts.ctx[a]
            IN  /\ \A k \in DOMAIN ctx.cycleScores : ctx.cycleScores[k] = 35
                /\ Range(ctx.smurfingScores) =
                       ContributionsTo(a, smurfing, TableSmurfing)
                /\ \A k \in DOMAIN ctx.layeringScores :
                       ctx.layeringScores[k] = 25
                /\ (/\ Len(ctx.cycleScores) = 1
                    /\ ctx.smurfingScores = <<>>
                    /\ ctx.layeringScores = <<>>) =>
                       FamilyMaxSum(ctx) = 35

\* The lists of every account hold the contributions the three functions
\* compute for the rings holding it.
ContributionsAsComputed ==
    ContextsBuilt =>
        \A a \in DOMAIN accountContexts.ctx :
            LET ctx == accountContexts.ctx[a]
            IN  /\ Range(ctx.cycleScores) =
                       ContributionsTo(a, cycles, computeCycleContribution)
                /\ Range(ctx.smurfingScores) =
                       ContributionsTo(a, smurfing, computeSmurfingContribution)
                /\ Range(ctx.layeringScores) =
                       ContributionsTo(a, layering, computeLayeringContribution)
                /\ \A k \in DOMAIN ctx.cycleScores :
                       ctx.cycleScores[k] \in {30, 40, 50, 60}
                /\ \A k \in DOMAIN ctx.smurfingScores :
                       ctx.smurfingScores[k] \in {35, 50, 70, 85}
                /\ \A k \in DOMAIN ctx.layeringScores :
                       ctx.layeringScores[k] \in {25, 35}

-----------------------------------------------------------------------------
(* What the calls leave alone *)

\* Every ring of a list is still in the list, at its place, unchanged.
RingsKept(before, after) ==
    /\ Len(before) <= Len(after)
    /\ \A k \in DOMAIN before : after[k] = before[k]

\* No step after buildGraph changes the graph; a ring once pushed is never
\* changed or removed, a detector's list being started afresh only by the
\* step that calls the detector.
GraphAndRingsKept ==
    /\ pc # "build" => graph' = graph
    /\ pc # "build" => RingsKept(cycles, cycles')
    /\ ~(pc = "cycles" /\ pc' = "smurfing") => RingsKept(smurfing, smurfing')
    /\ ~(pc = "smurfing" /\ pc' = "layering") => RingsKept(layering, layering')
    /\ pc \in {"done", "final", "scored", "assemble"} =>
           /\ cycles' = cycles
           /\ smurfing' = smurfing
           /\ layering' = layering

\* Once the three detectors have returned, the graph is the one buildGraph
\* returned and each list is what its detector returns when it alone is run
\* on that graph.
FindingsOfEachAlone ==
    pc = "done" =>
        LET g == buildGraph(txs)
        IN  /\ graph = g
            /\ cycles = detectCycles(g)
            /\ smurfing = detectSmurfing(g, Len(cycles))
            /\ layering = detectLayering(g, Len(cycles) + Len(smurfing))

\* C25: detectCycles, detectSmurfing, detectLayering,
\* buildFalsePositiveProfile, computeSuspicionScores and buildAnalysisResult
\* leave the graph and the detectors' outputs unchanged: the nodes, their
\* transaction lists in content and order, the adjacency maps and every
\* field of every ring are the same before and after each call, so that
\* each detector finds on the graph what it finds when run on it alone.
C25_GraphAndRingsUnchanged ==
    [][GraphAndRingsKept]_vars /\ [](FindingsOfEachAlone)

\* A request answered on a batch where each detector found a ring, with the
\* graph still the one buildGraph returned.
C25_Witness ==
    /\ pc = "responded"
    /\ cycles # <<>>
    /\ smurfing # <<>>
    /\ layering # <<>>
    /\ suspiciousAccounts # <<>>
    /\ graph = buildGraph(txs)

-----------------------------------------------------------------------------
(* buildGraph of lib/graph.ts, one transaction of its loop at a time *)

\* The three maps before the first transaction (graph.ts lines 364-366).
NoGraph ==
    [nodeIds |-> <<>>, nodes |-> <<>>, adjacency |-> <<>>,
     reverse_adjacency |-> <<>>]

NewNode(accountId) ==
    [account_id       |-> accountId,
     in_degree        |-> 0,
     out_degree       |-> 0,
     total_in_amount  |-> 0,
     total_out_amount |-> 0,
     in_transactions  |-> <<>>,
     out_transactions |-> <<>>]

\* ensureNode without its test: the node is set anew at every call.
EnsureNodeAnew(g, accountId) ==
    [g EXCEPT !.nodeIds = SetAdd(@, accountId),
              !.nodes = (accountId :> NewNode(accountId)) @@ @]

ensureNode(g, accountId) ==
    IF accountId \in DOMAIN g.nodes THEN g
    ELSE [g EXCEPT !.nodeIds = Append(@, accountId),
                   !.nodes = (accountId :> NewNode(accountId)) @@ @]

\* senderNode.out_degree += 1, ... (graph.ts lines 394-397)
NoteSent(node, parsed) ==
    [node EXCEPT !.out_degree = @ + 1,
                 !.total_out_amount = @ + parsed.amount,
                 !.out_transactions = Append(@, parsed)]

\* receiverNode.in_degree += 1, ... (graph.ts lines 399-402)
NoteReceived(node, parsed) ==
    [node EXCEPT !.in_degree = @ + 1,
                 !.total_in_amount = @ + parsed.amount,
                 !.in_transactions = Append(@, parsed)]

\* map.get(outer).get(inner).push(parsed), both levels created when absent
\* (graph.ts lines 404-420).
BucketPush(map, outer, inner, parsed) ==
    LET row  == IF outer \in DOMAIN map THEN map[outer]
                ELSE [keys |-> <<>>, edge |-> <<>>]
        list == IF inner \in DOMAIN row.edge THEN row.edge[inner] ELSE <<>>
    IN  (outer :> [keys |-> SetAdd(row.keys, inner),
                   edge |-> (inner :> Append(list, parsed)) @@ row.edge])
        @@ map

\* The body of "for (const tx of transactions)".
AddTransaction(g, parsed) ==
    LET s  == parsed.sender_id
        r  == parsed.receiver_id
        g1 == ensureNode(ensureNode(g, s), r)
        g2 == [g1 EXCEPT !.nodes[s] = NoteSent(@, parsed)]
        g3 == [g2 EXCEPT !.nodes[r] = NoteReceived(@, parsed)]
    IN  [g3 EXCEPT !.adjacency = BucketPush(@, s, r, parsed),
                   !.reverse_adjacency = BucketPush(@, r, s, parsed)]

\* The two sorts of every node (graph.ts lines 423-426).
SortNodes(g) ==
    [g EXCEPT !.nodes =
        [a \in DOMAIN g.nodes |->
            [g.nodes[a] EXCEPT
                !.in_transactions = SortByTime(@),
                !.out_transactions = SortByTime(@)]]]

\* Longest batch handed to the loop.
GraphMaxLen == 3

GraphIds == {IdA, IdB}

GraphTimes == {HOUR_MS, HOUR_MS + TimeGrain}

\* Every batch of at most GraphMaxLen transactions among GraphIds: self-loops,
\* parallel edges and timestamps out of order included.
GraphBatches ==
    UNION {
        {[i \in 1..n |-> Tx(i, e[i][1], e[i][2], 10 * i, e[i][3])] :
             e \in [1..n -> GraphIds \X GraphIds \X GraphTimes]} :
        n \in 0..GraphMaxLen}

InitGraph ==
    /\ txs \in GraphBatches
    /\ graph = NoGraph
    /\ pc = "graph"
    /\ nodeIdx = 1
    /\ foundCanonical = {}
    /\ cycles = <<>>
    /\ ringCounter = 0
    /\ smurfing = <<>>
    /\ potentialShells = {}
    /\ startNodes = <<>>
    /\ foundChains = {}
    /\ layering = <<>>
    /\ CanonIdle
    /\ AnalysisIdle
    /\ CsvIdle
    /\ stack = <<>>

GraphAddTx ==
    /\ pc = "graph"
    /\ nodeIdx <= Len(txs)
    /\ graph' = AddTransaction(graph, txs[nodeIdx])
    /\ nodeIdx' = nodeIdx + 1
    /\ UNCHANGED <<txs, pc, foundCanonical, cycles, ringCounter, smurfing,
                   potentialShells, startNodes, foundChains, layering, cseq,
                   ckey>>
    /\ UNCHANGED <<analysisVars, csvVars, stack>>

GraphSort ==
    /\ pc = "graph"
    /\ nodeIdx > Len(txs)
    /\ graph' = SortNodes(graph)
    /\ pc' = "built"
    /\ UNCHANGED <<txs, nodeIdx, foundCanonical, cycles, ringCounter, smurfing,
                   potentialShells, startNodes, foundChains, layering, cseq,
                   ckey>>
    /\ UNCHANGED <<analysisVars, csvVars, stack>>

NextGraph == GraphAddTx \/ GraphSort

SpecGraph == InitGraph /\ [][NextGraph]_vars

Occurrences(s, x) == Cardinality({i \in DOMAIN s : s[i] = x})

\* The same transactions, each as many times.
SameTransactions(a, b) ==
    \A t \in Range(a) \cup Range(b) : Occurrences(a, t) = Occurrences(b, t)

FromTo(s, r) ==
    SelectSeq(txs, LAMBDA t : t.sender_id = s /\ t.receiver_id = r)

Bucket(map, outer, inner) ==
    IF outer \in DOMAIN map /\ inner \in DOMAIN map[outer].edge
    THEN map[outer].edge[inner]
    ELSE <<>>

HasBucket(map, outer, inner) ==
    outer \in DOMAIN map /\ inner \in DOMAIN map[outer].edge

\* The graph the detectors are given is the one the loop builds.
GraphAgrees ==
    pc = "built" =>
        LET g == buildGraph(txs)
        IN  /\ g.nodeIds = graph.nodeIds
            /\ DOMAIN g.nodes = DOMAIN graph.nodes
            /\ \A a \in DOMAIN g.nodes : g.nodes[a] = graph.nodes[a]
            /\ DOMAIN g.adjacency = DOMAIN graph.adjacency
            /\ \A a \in DOMAIN g.adjacency :
                   /\ g.adjacency[a].keys = graph.adjacency[a].keys
                   /\ \A b \in Range(g.adjacency[a].keys) :
                          g.adjacency[a].edge[b] = graph.adjacency[a].edge[b]

\* C21: after buildGraph every account id that occurs as a sender or a
\* receiver has exactly one node; adjacency[s][r] exists iff a transaction
\* goes from s to r, is non-empty and holds exactly the transactions from s to
\* r; reverse_adjacency[r][s] holds the same transactions; a node's in_degree
\* and out_degree are the lengths of its in_transactions and out_transactions,
\* which hold exactly the transactions the account received and sent (a
\* self-loop once in each).
C21_GraphMatchesTransactions ==
    pc = "built" =>
        LET ids == {txs[i].sender_id : i \in DOMAIN txs}
                       \cup {txs[i].receiver_id : i \in DOMAIN txs}
        IN  /\ DOMAIN graph.nodes = ids
            /\ Range(graph.nodeIds) = ids
            /\ Len(graph.nodeIds) = Cardinality(ids)
            /\ \A a \in ids : graph.nodes[a].account_id = a
            /\ \A s \in DOMAIN graph.adjacency :
                   DOMAIN graph.adjacency[s].edge \subseteq ids
            /\ \A r \in DOMAIN graph.reverse_adjacency :
                   DOMAIN graph.reverse_adjacency[r].edge \subseteq ids
            /\ DOMAIN graph.adjacency \subseteq ids
            /\ DOMAIN graph.reverse_adjacency \subseteq ids
            /\ \A s \in ids, r \in ids :
                   /\ HasBucket(graph.adjacency, s, r) <=> FromTo(s, r) # <<>>
                   /\ HasBucket(graph.reverse_adjacency, r, s)
                          <=> FromTo(s, r) # <<>>
                   /\ SameTransactions(Bucket(graph.adjacency, s, r),
                                       FromTo(s, r))
                   /\ SameTransactions(Bucket(graph.reverse_adjacency, r, s),
                                       FromTo(s, r))
            /\ \A a \in ids :
                   LET node == graph.nodes[a]
                   IN  /\ node.in_degree = Len(node.in_transactions)
                       /\ node.out_degree = Len(node.out_transactions)
                       /\ SameTransactions(
                              node.in_transactions,
                              SelectSeq(txs, LAMBDA t : t.receiver_id = a))
                       /\ SameTransactions(
                              node.out_transactions,
                              SelectSeq(txs, LAMBDA t : t.sender_id = a))

\* A built graph with a self-loop, a parallel edge, an edge back and a node
\* whose incoming transactions were out of order.
C21_Witness ==
    /\ pc = "built"
    /\ \E a \in DOMAIN graph.nodes :
           /\ Len(Bucket(graph.adjacency, a, a)) = 1
           /\ graph.nodes[a].in_degree = 1
           /\ \E b \in DOMAIN graph.nodes \ {a} :
                  /\ Len(Bucket(graph.adjacency, a, b)) = 2
                  /\ graph.nodes[b].in_transactions
                         # SelectSeq(txs, LAMBDA t : t.receiver_id = b)

-----------------------------------------------------------------------------
(* validateCSV of lib/graph.ts *)

(***************************************************************************)
(* The text is modelled after rawText.trim().split(/\r?\n/): oversize      *)
(* tells whether its encoding exceeds MAX_CSV_SIZE_BYTES, header is the    *)
(* set of the lower-cased cells of lines[0] and lines holds lines[1..].    *)
(* A line is a record of what the loop body reads of it: whether it trims  *)
(* to "", parts.length, the cells at the five column indices (<<>> for an  *)
(* empty or missing cell), parseFloat of the amount cell, and for the      *)
(* timestamp cell whether TIMESTAMP_REGEX matches, the number of digits of *)
(* its hour and what Date.getTime() gives for it.                          *)
(***************************************************************************)
REQUIRED_COLUMNS ==
    <<"transaction_id", "sender_id", "receiver_id", "amount", "timestamp">>

MAX_ERRORS == 50

\* if (errors.length > MAX_ERRORS) break;
TooManyErrors(errs) == Len(errs) > MAX_ERRORS

MissingColumns(header) ==
    SelectSeq(REQUIRED_COLUMNS, LAMBDA col : col \notin header)

HeaderErrors(header) ==
    LET missing == MissingColumns(header)
    IN  [k \in DOMAIN missing |->
            [row |-> 0, message |-> "Missing required column: ",
             column |-> missing[k]]]

\* normalizeTimestamp: a one-digit hour is padded to two digits.
normalizeTimestamp(timestamp) == [timestamp EXCEPT !.hour_digits = 2]

\* The message of the first failing test of the loop body, "" when the line
\* passes them all.
LineError(line) ==
    IF line.columns < Len(REQUIRED_COLUMNS) THEN "Row has too few columns"
    ELSE IF line.sender_id = <<>> THEN "sender_id is null or empty."
    ELSE IF line.receiver_id = <<>> THEN "receiver_id is null or empty."
    ELSE IF isNaN(line.amount) \/ NumGreater(Num(0), line.amount)
         THEN "Invalid amount"
    ELSE IF ~line.timestamp.matches THEN "Invalid timestamp format"
    ELSE IF isNaN(normalizeTimestamp(line.timestamp).ms)
         THEN "Unparseable timestamp"
    ELSE ""

ParsedLine(line) ==
    [transaction_id |-> line.transaction_id,
     sender_id      |-> line.sender_id,
     receiver_id    |-> line.receiver_id,
     amount         |-> line.amount,
     timestamp      |-> normalizeTimestamp(line.timestamp)]

CSVValidationResult(errs, parsed) ==
    [valid |-> Len(errs) = 0, errors |-> errs, transactions |-> parsed]

\* Sample lines, one for every branch of the loop body.
GoodLine ==
    [blank |-> FALSE, columns |-> 5, transaction_id |-> <<84>>,
     sender_id |-> IdA, receiver_id |-> IdB, amount |-> Num(100000),
     timestamp |-> [matches |-> TRUE, hour_digits |-> 1, ms |-> Num(HOUR_MS)]]

BlankLine == [GoodLine EXCEPT !.blank = TRUE, !.columns = 1]

CsvSamples ==
    <<GoodLine,
      [GoodLine EXCEPT !.columns = 4],
      [GoodLine EXCEPT !.sender_id = <<>>],
      BlankLine,
      [GoodLine EXCEPT !.receiver_id = <<>>],
      [GoodLine EXCEPT !.amount = NaN],
      [GoodLine EXCEPT !.amount = Num(0 - 5000)],
      [GoodLine EXCEPT !.timestamp.matches = FALSE],
      [GoodLine EXCEPT !.timestamp.ms = NaN, !.timestamp.hour_digits = 2]>>

\* Most lines of a text.
CsvMaxLines == 53

CsvLengths == {0, 1, 2} \cup ((MAX_ERRORS - 1)..CsvMaxLines)

AllColumns == {REQUIRED_COLUMNS[k] : k \in DOMAIN REQUIRED_COLUMNS}

\* n lines, the j-th being sample number first + (j - 1) * step, counted
\* round the samples.
CsvLines(n, first, step) ==
    Elements([j \in 1..n |->
                 CsvSamples[((first - 1 + (j - 1) * step) % Len(CsvSamples)) + 1]])

CsvTexts ==
    {[oversize |-> TRUE, header |-> AllColumns, lines |-> <<GoodLine>>]}
    \cup {[oversize |-> FALSE, header |-> h, lines |-> <<GoodLine>>] :
              h \in {AllColumns \ {"amount"}, {"sender_id", "extra"}, {}}}
    \cup {[oversize |-> FALSE, header |-> AllColumns \cup {"extra"},
           lines |-> CsvLines(n, first, step)] :
              n \in CsvLengths, first \in DOMAIN CsvSamples, step \in {0, 1}}

InitCsv ==
    /\ rawText \in CsvTexts
    /\ csvRow = 0
    /\ csvErrors = <<>>
    /\ csvTransactions = <<>>
    /\ validation = NoValidation
    /\ pc = "csv"
    /\ txs = <<>>
    /\ graph = EmptyGraph
    /\ nodeIdx = 1
    /\ foundCanonical = {}
    /\ cycles = <<>>
    /\ ringCounter = 0
    /\ smurfing = <<>>
    /\ potentialShells = {}
    /\ startNodes = <<>>
    /\ foundChains = {}
    /\ layering = <<>>
    /\ CanonIdle
    /\ AnalysisIdle
    /\ stack = <<>>

csvFrame == <<txs, graph, nodeIdx, foundCanonical, cycles, ringCounter,
              smurfing, potentialShells, startNodes, foundChains, layering,
              cseq, ckey, analysisVars, rawText, stack>>

\* The size guard, the line count and the header (graph.ts lines 256-279):
\* each failure returns at once.
CsvOpen ==
    /\ pc = "csv"
    /\ LET early ==
               IF rawText.oversize
               THEN <<[row |-> 0, message |-> "CSV file too large"]>>
               ELSE IF 1 + Len(rawText.lines) < 2
               THEN <<[row |-> 0,
                       message |-> "CSV must contain a header row and at least one data row."]>>
               ELSE HeaderErrors(rawText.header)
       IN  IF Len(early) > 0
           THEN /\ csvErrors' = early
                /\ validation' = CSVValidationResult(early, csvTransactions)
                /\ pc' = "validated"
                /\ csvRow' = csvRow
           ELSE /\ pc' = "csv_rows"
                /\ csvRow' = 2
                /\ UNCHANGED <<csvErrors, validation>>
    /\ UNCHANGED <<csvTransactions, csvFrame>>

\* One iteration of "for (let i = 1; i < lines.length; i++)"; csvRow is i + 1.
CsvLine ==
    /\ pc = "csv_rows"
    /\ csvRow - 1 <= Len(rawText.lines)
    /\ LET line == rawText.lines[csvRow - 1]
           message == LineError(line)
           next == Append(csvErrors, [row |-> csvRow, message |-> message])
       IN  IF line.blank
           THEN /\ csvRow' = csvRow + 1
                /\ UNCHANGED <<csvErrors, csvTransactions, pc>>
           ELSE IF message # ""
           THEN /\ csvErrors' = next
                /\ IF TooManyErrors(next)
                   THEN pc' = "csv_break" /\ csvRow' = csvRow
                   ELSE pc' = pc /\ csvRow' = csvRow + 1
                /\ UNCHANGED csvTransactions
           ELSE /\ csvTransactions' = Append(csvTransactions, ParsedLine(line))
                /\ csvRow' = csvRow + 1
                /\ UNCHANGED <<csvErrors, pc>>
    /\ UNCHANGED <<validation, csvFrame>>

\* The return after the loop, left by its end or by a break.
CsvReturn ==
    /\ \/ pc = "csv_break"
       \/ pc = "csv_rows" /\ csvRow - 1 > Len(rawText.lines)
    /\ validation' = CSVValidationResult(csvErrors, csvTransactions)
    /\ pc' = "validated"
    /\ UNCHANGED <<csvRow, csvErrors, csvTransactions, csvFrame>>

NextCsv == CsvOpen \/ CsvLine \/ CsvReturn

SpecCsv == InitCsv /\ [][NextCsv]_vars

\* C22: validateCSV never returns more than 50 csvRow csvErrors, and valid is true
\* iff the returned list of csvErrors is empty.
C22_AtMostFiftyErrors ==
    pc = "validated" =>
        /\ Len(validation.errors) <= 50
        /\ validation.valid <=> validation.errors = <<>>

\* The list never holds more than one error above MAX_ERRORS, and valid is
\* true iff it is empty.
ErrorsWithinOneOfCap ==
    pc = "validated" =>
        /\ Len(validation.errors) <= MAX_ERRORS + 1
        /\ validation.valid <=> validation.errors = <<>>

\* Lines left unread after the break.
StoppedEarly ==
    /\ pc = "validated"
    /\ csvRow - 1 < Len(rawText.lines)
    /\ Len(validation.errors) = MAX_ERRORS + 1

-----------------------------------------------------------------------------
(* The depth-first searches of detectCycles and detectLayering, one popped *)
(* frame at a time                                                         *)

\* Accounts of the clique the searches are run on.
DfsClique == 6

\* S -> R1 -> R2 -> R3 -> R1 with a second transaction on R2 -> R3 and a
\* self-loop on R3: R1 and R2 are shells on a directed cycle, S starts a
\* search.
ShellRingBatch ==
    << Tx(1, Named(83, 1), Named(82, 1), 500, ChainStart),
       Tx(2, Named(82, 1), Named(82, 2), 490, ChainStart + HOUR_MS),
       Tx(3, Named(82, 2), Named(82, 3), 480, ChainStart + 2 * HOUR_MS),
       Tx(4, Named(82, 3), Named(82, 1), 470, ChainStart + 3 * HOUR_MS),
       Tx(5, Named(82, 2), Named(82, 3), 10, ChainStart + 4 * HOUR_MS),
       Tx(6, Named(82, 3), Named(82, 3), 5, ChainStart + 5 * HOUR_MS) >>

DfsBatches ==
    {<<>>, CycleUniverse, CliqueBatch(DfsClique), ShellRingBatch,
     ExampleCycleBatch \o <<Tx(4, IdA, IdB, 1000, 82 * HOUR_MS)>>,
     LongChainBatch(LongChainHops),
     ChainBatch(FALSE, FALSE, TRUE, HOUR_MS, FALSE),
     CycleUniverse \o ShellRingBatch \o LongChainBatch(LongChainHops)}

\* Either detector entered on the graph of a batch; for detectLayering its
\* steps 1 and 2 are done.
InitDfs ==
    /\ txs \in DfsBatches
    /\ graph = buildGraph(txs)
    /\ pc \in {"cycle_start", "layer_start"}
    /\ nodeIdx = 1
    /\ foundCanonical = {}
    /\ cycles = <<>>
    /\ ringCounter = 0
    /\ smurfing = <<>>
    /\ potentialShells =
           IF pc = "layer_start" THEN PotentialShells(graph) ELSE {}
    /\ startNodes =
           IF pc = "layer_start" /\ PotentialShells(graph) # {}
           THEN StartNodes(graph, PotentialShells(graph)) ELSE <<>>
    /\ foundChains = {}
    /\ layering = <<>>
    /\ CanonIdle
    /\ AnalysisIdle
    /\ CsvIdle
    /\ stack = <<>>

dfsFrame == <<txs, graph, smurfing, potentialShells, startNodes, cseq, ckey,
              analysisVars, csvVars>>

\* detectCycles: the seeds of the next start node are pushed (part_000
\* lines 94-106).
CycleStart ==
    /\ pc = "cycle_start"
    /\ nodeIdx <= Len(graph.nodeIds)
    /\ stack' = Elements(CycleSeeds(graph, graph.nodeIds[nodeIdx]))
    /\ pc' = "cycle_dfs"
    /\ UNCHANGED <<nodeIdx, foundCanonical, cycles, ringCounter, foundChains,
                   layering, dfsFrame>>

\* detectCycles: one iteration of "while (stack.length > 0)".
CyclePop ==
    /\ pc = "cycle_dfs"
    /\ stack # <<>>
    /\ LET frame     == stack[Len(stack)]
           startNode == graph.nodeIds[nodeIdx]
           next      == CycleEmit(graph, startNode, frame,
                            [found |-> foundCanonical, results |-> cycles,
                             ringCounter |-> ringCounter])
       IN  /\ foundCanonical' = next.found
           /\ cycles' = next.results
           /\ ringCounter' = next.ringCounter
           /\ stack' = SubSeq(stack, 1, Len(stack) - 1)
                           \o Elements(CycleExpand(graph, startNode, frame))
    /\ UNCHANGED <<pc, nodeIdx, foundChains, layering, dfsFrame>>

\* detectCycles: the stack is empty; the cap test, then the next start node.
CycleNextStart ==
    /\ pc = "cycle_dfs"
    /\ stack = <<>>
    /\ nodeIdx' = IF CycleCapReached(cycles)
                  THEN Len(graph.nodeIds) + 1 ELSE nodeIdx + 1
    /\ pc' = "cycle_start"
    /\ UNCHANGED <<stack, foundCanonical, cycles, ringCounter, foundChains,
                   layering, dfsFrame>>

\* detectLayering: the seeds of the next start node are pushed (part_002
\* lines 155-172).
LayerStart ==
    /\ pc = "layer_start"
    /\ nodeIdx <= Len(startNodes)
    /\ stack' = Elements(LayerSeeds(graph, potentialShells, startNodes[nodeIdx]))
    /\ pc' = "layer_dfs"
    /\ UNCHANGED <<nodeIdx, foundCanonical, cycles, ringCounter, foundChains,
                   layering, dfsFrame>>

\* detectLayering: one iteration of "while (stack.length > 0)".
LayerPop ==
    /\ pc = "layer_dfs"
    /\ stack # <<>>
    /\ LET frame == stack[Len(stack)]
           next  == LayerEmit(graph, frame,
                        [found |-> foundChains, results |-> layering,
                         ringCounter |-> ringCounter])
       IN  /\ foundChains' = next.found
           /\ layering' = next.results
           /\ ringCounter' = next.ringCounter
           /\ stack' = SubSeq(stack, 1, Len(stack) - 1)
                           \o Elements(LayerExpand(graph, potentialShells, frame))
    /\ UNCHANGED <<pc, nodeIdx, foundCanonical, cycles, dfsFrame>>

\* detectLayering: the stack is empty; the cap test, then the next start
\* node.
LayerNextStart ==
    /\ pc = "layer_dfs"
    /\ stack = <<>>
    /\ nodeIdx' = IF LayerCapReached(layering)
                  THEN Len(startNodes) + 1 ELSE nodeIdx + 1
    /\ pc' = "layer_start"
    /\ UNCHANGED <<stack, foundCanonical, cycles, ringCounter, foundChains,
                   layering, dfsFrame>>

\* return results
DfsReturn ==
    /\ \/ pc = "cycle_start" /\ nodeIdx > Len(graph.nodeIds)
       \/ pc = "layer_start" /\ nodeIdx > Len(startNodes)
    /\ pc' = "returned"
    /\ UNCHANGED <<stack, nodeIdx, foundCanonical, cycles, ringCounter,
                   foundChains, layering, dfsFrame>>

NextDfs ==
    \/ CycleStart
    \/ CyclePop
    \/ CycleNextStart
    \/ LayerStart
    \/ LayerPop
    \/ LayerNextStart
    \/ DfsReturn

\* The statements of a running call are run one after the other: a call that
\* has not returned takes its next step.  This is WF_vars(NextDfs), that is
\* []<>~ENABLED <<NextDfs>>_vars \/ []<><<NextDfs>>_vars, with both parts
\* written out: a step is possible exactly when pc # "returned", and under
\* [][NextDfs]_vars every step that changes vars is a step of NextDfs.
Running == []<>(pc = "returned") \/ []<><<TRUE>>_vars

SpecDfs == InitDfs /\ [][NextDfs]_vars /\ Running

\* No path on the stack is longer than 5 accounts (cycles) or 9 (layering).
PathsBounded ==
    \A k \in DOMAIN stack :
        /\ Len(stack[k].path) >= 2
        /\ pc = "cycle_dfs" => Len(stack[k].path) <= 5
        /\ pc = "layer_dfs" => Len(stack[k].path) <= 9

\* A pop takes the top frame off and pushes frames whose path is the popped
\* frame's path and one more account; the seeds are the start node and one
\* more account.
PushesOneLonger ==
    /\ (pc \in {"cycle_dfs", "layer_dfs"} /\ stack # <<>>) =>
           LET parent == stack[Len(stack)]
           IN  /\ Len(stack') >= Len(stack) - 1
               /\ \A k \in 1..(Len(stack) - 1) : stack'[k] = stack[k]
               /\ \A k \in Len(stack)..Len(stack') :
                      /\ Len(stack'[k].path) = Len(parent.path) + 1
                      /\ stack'[k].path = Append(parent.path, stack'[k].node)
    /\ pc \in {"cycle_start", "layer_start"} =>
           \A k \in DOMAIN stack' : Len(stack'[k].path) = 2

\* C26: on every finite graph, directed cycles, self-loops and parallel edges
\* included, the depth-first search of detectCycles and of detectLayering
\* terminates for every seed: every pushed frame has a path one node longer
\* than its parent's, no path exceeds 5 nodes (cycles) or 9 nodes
\* (layering), the stack becomes empty again whenever it was filled, and the
\* detector returns.
C26_SearchTerminates ==
    /\ [](PathsBounded)
    /\ [][PushesOneLonger]_vars
    /\ (stack # <<>>) ~> (stack = <<>>)
    /\ <>(pc = "returned")

\* A detector has returned from a graph that holds a directed cycle, a
\* self-loop and two transactions on one edge, having found a ring.
C26_Witness ==
    /\ pc = "returned"
    /\ stack = <<>>
    /\ cycles \o layering # <<>>
    /\ \E a \in DOMAIN graph.nodes : HasEdge(graph, a, a)
    /\ \E a \in DOMAIN graph.adjacency :
           \E b \in DOMAIN graph.adjacency[a].edge :
               Len(graph.adjacency[a].edge[b]) >= 2

\* A path as long as the limit lets it be is on the stack.
LongestPathsSeen ==
    \E k \in DOMAIN stack :
        \/ pc = "cycle_dfs" /\ Len(stack[k].path) = 5
        \/ pc = "layer_dfs" /\ Len(stack[k].path) = 9

-----------------------------------------------------------------------------
(* The ring id of a suspicious account *)

\* The rings of the request in processing order: all cycles, then all
\* smurfing patterns, then all layering patterns.
AllRings == cycles \o smurfing \o layering

\* The places in AllRings of the rings that hold account a.
Holding(a) == RingsOf(a, AllRings)

\* C27: each suspicious account's ring_id is never empty and is the id of a
\* ring that contains the account, namely the first such ring in processing
\* order (cycles, then smurfing patterns, then layering patterns, each in
\* emission order), which is the lowest-numbered ring containing the
\* account.
C27_RingIdIsFirstRing ==
    ScoresReturned =>
        \A i \in DOMAIN suspiciousAccounts :
            LET sa == suspiciousAccounts[i]
                held == Holding(sa.account_id)
            IN  /\ sa.ring_id # EmptyString
                /\ held # {}
                /\ sa.ring_id = AllRings[SetMin(held)].ring_id
                /\ RingCounterOf(sa.ring_id) >= 1
                /\ \A k \in held :
                       RingCounterOf(sa.ring_id)
                           <= RingCounterOf(AllRings[k].ring_id)

\* A suspicious account is a member of rings of two detectors, and another
\* one of two rings of one detector.
C27_Witness ==
    /\ ScoresReturned
    /\ \E i \in DOMAIN suspiciousAccounts :
           LET a == suspiciousAccounts[i].account_id
           IN  Cardinality({r \in {cycles, smurfing, layering} :
                               RingsOf(a, r) # {}}) >= 2
    /\ \E i \in DOMAIN suspiciousAccounts :
           \E r \in {cycles, smurfing, layering} :
               Cardinality(RingsOf(suspiciousAccounts[i].account_id, r)) >= 2

-----------------------------------------------------------------------------
(* The members of a smurfing pattern *)

\* The distinct counterparties of one side of an account inside a window.
SendersInside(nodeData, w) ==
    {nodeData.in_transactions[i].sender_id :
        i \in {j \in DOMAIN nodeData.in_transactions :
                  InWindow(nodeData.in_transactions[j], w)}}

ReceiversInside(nodeData, w) ==
    {nodeData.out_transactions[i].receiver_id :
        i \in {j \in DOMAIN nodeData.out_transactions :
                  InWindow(nodeData.out_transactions[j], w)}}

\* The first of the windows in which Count is largest.
FirstLargest(windows, Count(_)) ==
    SetMin({w \in DOMAIN windows :
               \A u \in DOMAIN windows : Count(windows[u]) <= Count(windows[w])})

\* The members as the three sets: the hub, the senders of the window that
\* reached the largest fan-in when fan-in is flagged, the receivers of the
\* window that reached the largest fan-out when fan-out is flagged.
StatedMembers(p) ==
    LET nodeData == graph.nodes[p.hub_account]
        windows  == getTimeWindows(nodeData.in_transactions
                                       \o nodeData.out_transactions)
        FanIn(w)  == Cardinality(SendersInside(nodeData, w))
        FanOut(w) == Cardinality(ReceiversInside(nodeData, w))
    IN  {p.hub_account}
          \cup (IF p.direction \in {"fan_in", "both"}
                THEN SendersInside(nodeData,
                                   windows[FirstLargest(windows, FanIn)])
                ELSE {})
          \cup (IF p.direction \in {"fan_out", "both"}
                THEN ReceiversInside(nodeData,
                                     windows[FirstLargest(windows, FanOut)])
                ELSE {})

\* The hub is a member, no member is listed twice, and the members are the
\* three sets.
MembersAsStated(p) ==
    /\ p.hub_account \in Range(p.member_accounts)
    /\ Cardinality(Range(p.member_accounts)) = Len(p.member_accounts)
    /\ Range(p.member_accounts) = StatedMembers(p)

\* Every account the hub received from (side "in") or paid (side "out").
Counterparties(p, side) ==
    LET nodeData == graph.nodes[p.hub_account]
    IN  IF side = "in"
        THEN {nodeData.in_transactions[i].sender_id :
                 i \in DOMAIN nodeData.in_transactions}
        ELSE {nodeData.out_transactions[i].receiver_id :
                 i \in DOMAIN nodeData.out_transactions}

\* The side of a pattern that is not flagged, "none" when both are.
Unflagged(p) ==
    IF p.direction = "fan_in" THEN "out"
    ELSE IF p.direction = "fan_out" THEN "in" ELSE "none"

\* The statement of C28 as it is worded: every smurfing pattern's
\* member_accounts contains the hub, has no duplicates and is the three
\* sets, and no counterparty of a direction that is not flagged is a
\* member.
C28_UnflaggedNeverMembers ==
    SmurfingReturned =>
        \A k \in DOMAIN smurfing :
            /\ MembersAsStated(smurfing[k])
            /\ Unflagged(smurfing[k]) # "none" =>
                   Counterparties(smurfing[k], Unflagged(smurfing[k]))
                       \cap Range(smurfing[k].member_accounts) = {}

\* C28: every smurfing pattern's member_accounts contains the hub_account,
\* has no duplicates, and equals {hub} with the distinct senders inside the
\* window that reached the maximum fan-in (the first such window) if fan-in
\* is flagged and the distinct receivers inside the window that reached the
\* maximum fan-out if fan-out is flagged; a counterparty of a direction that
\* is not flagged is a member only as the hub itself or as a counted
\* counterparty of the flagged direction.
C28_SmurfMembers ==
    SmurfingReturned =>
        \A k \in DOMAIN smurfing :
            LET p == smurfing[k]
            IN  /\ MembersAsStated(p)
                /\ Unflagged(p) = "out" =>
                       Counterparties(p, "out") \cap Range(p.member_accounts)
                           \subseteq StatedMembers([p EXCEPT !.direction = "fan_in"])
                /\ Unflagged(p) = "in" =>
                       Counterparties(p, "in") \cap Range(p.member_accounts)
                           \subseteq StatedMembers([p EXCEPT !.direction = "fan_out"])

\* The hub of a returned pattern flagged for fan-in alone has paid an
\* account that is not a member.
C28_Witness ==
    /\ SmurfingReturned
    /\ \E k \in DOMAIN smurfing :
           /\ smurfing[k].direction = "fan_in"
           /\ Counterparties(smurfing[k], "out")
                  \ Range(smurfing[k].member_accounts) # {}

\* Two windows reach the largest fan-in with different senders, and the
\* members are those of the first.
TiedWindows ==
    /\ SmurfingReturned
    /\ \E k \in DOMAIN smurfing :
           LET nodeData == graph.nodes[smurfing[k].hub_account]
               windows  == getTimeWindows(nodeData.in_transactions
                                              \o nodeData.out_transactions)
           IN  \E u, w \in DOMAIN windows :
                   /\ u < w
                   /\ Cardinality(SendersInside(nodeData, windows[u]))
                          = Len(smurfing[k].member_accounts) - 1
                   /\ Cardinality(SendersInside(nodeData, windows[w]))
                          = Len(smurfing[k].member_accounts) - 1
                   /\ SendersInside(nodeData, windows[u])
                          # SendersInside(nodeData, windows[w])

-----------------------------------------------------------------------------
(* The velocity signal in the detector and in the scorer *)

\* What detectSmurfing adds for the flagged directions (part_002 lines
\* 852-853).
DirectionPoints(p) ==
    (IF p.direction \in {"fan_in", "both"} THEN 35 ELSE 0)
    + (IF p.direction \in {"fan_out", "both"} THEN 35 ELSE 0)

\* detectSmurfing added the 15 of line 854 to the ring's risk_score: what
\* the score holds above the direction points is 15, or 25 with the 10 of
\* the redistribution.
DetectorVelocityBonus(p) ==
    p.risk_score - DirectionPoints(p) \in {15, 25}

\* computeSuspicionScores gave every member of the ring the high_velocity
\* label and a smurfing contribution with the 15 of line 53.
ScorerVelocitySignal(p) ==
    \A a \in Range(p.member_accounts) :
        /\ HIGH_VELOCITY \in Range(accountContexts.ctx[a].patterns)
        /\ DirectionPoints(p) + 15
               \in Range(accountContexts.ctx[a].smurfingScores)

\* C29: for every smurfing pattern the scorer and the detector agree on the
\* velocity signal: the members receive the high_velocity label and the +15
\* smurfing contribution in computeSuspicionScores if and only if
\* detectSmurfing added the +15 velocity bonus to that ring's risk_score.
C29_VelocityAgreement ==
    ContextsBuilt =>
        \A k \in DOMAIN smurfing :
            ScorerVelocitySignal(smurfing[k])
                <=> DetectorVelocityBonus(smurfing[k])

\* The detector's bonus always comes with the scorer's signal, and the
\* scorer's signal without the bonus only with a stored velocity of 0.7.
BonusImpliesSignal ==
    ContextsBuilt =>
        \A k \in DOMAIN smurfing :
            /\ DetectorVelocityBonus(smurfing[k])
                   => ScorerVelocitySignal(smurfing[k])
            /\ (ScorerVelocitySignal(smurfing[k])
                    /\ ~DetectorVelocityBonus(smurfing[k]))
                   => smurfing[k].velocity = 700

\* Both sides give the signal for one pattern, neither for another.
VelocityBothWays ==
    /\ ContextsBuilt
    /\ \E k \in DOMAIN smurfing :
           \/ ScorerVelocitySignal(smurfing[k])
                  /\ DetectorVelocityBonus(smurfing[k])
           \/ ~ScorerVelocitySignal(smurfing[k])
                  /\ ~DetectorVelocityBonus(smurfing[k])
                  /\ smurfing[k].velocity = 699

-----------------------------------------------------------------------------
(* The ring members that are listed *)

\* No false-positive flag and no high-volume deduction for account a.
WithoutFlags(a) ==
    LET fp == buildFalsePositiveProfile(graph.nodes[a])
    IN  /\ ~fp.is_merchant_like
        /\ ~fp.is_payroll_like
        /\ ~fp.is_stable_recurring
        /\ ~HighVolumeSteady(a)

\* C30: every account that is a member of at least one detected ring and has
\* no false-positive flag (not merchant-like, not payroll-like, not
\* stable-recurring, not subject to the high-volume-merchant deduction)
\* appears in suspicious_accounts with a suspicion_score of at least 25; a
\* ring member is absent from suspicious_accounts only through the
\* false-positive deductions.
C30_UnflaggedMembersListed ==
    ScoresReturned =>
        \A a \in RingMembers :
            /\ WithoutFlags(a) =>
                   /\ EntriesOf(a, suspiciousAccounts) # {}
                   /\ \A i \in EntriesOf(a, suspiciousAccounts) :
                          suspiciousAccounts[i].suspicion_score >= 25
            /\ EntriesOf(a, suspiciousAccounts) = {} =>
                   /\ ~WithoutFlags(a)
                   /\ BestSum(a) >= 25
                   /\ BestSum(a) <= ProfileDeductions(a)
                          + (IF HighVolumeSteady(a) THEN 40 ELSE 0)

\* A ring member without any flag is listed with exactly 25.
C30_Witness ==
    /\ ScoresReturned
    /\ \E a \in RingMembers :
           /\ WithoutFlags(a)
           /\ EntriesOf(a, suspiciousAccounts) # {}
           /\ ListedScore(a) = 25

\* Ring members with a flag and without one in the same request.
FlaggedBesideUnflagged ==
    /\ ScoresReturned
    /\ \E a \in RingMembers : ~WithoutFlags(a)
    /\ \E a \in RingMembers : WithoutFlags(a)

\* A ring member is absent from the list.
MemberAbsent ==
    /\ ScoresReturned
    /\ \E a \in RingMembers : EntriesOf(a, suspiciousAccounts) = {}

=============================================================================
